---- MODULE Spec2Model ----
(***************************************************************************)
(* cmlreaders: the EEG format readers (BaseEEGReader and its subclasses),  *)
(* the default and the Ramulator HDF5 rereferencing, and the conversion of *)
(* events to epochs used by EEGReader.as_timeseries.                       *)
(*                                                                         *)
(* A reader is constructed with a file, a list of epochs and a scheme;     *)
(* read() returns (data, contacts) and rereference(data, contacts) returns *)
(* (reref, labels).  Arrays are sequences: data[e][ch][t].                 *)
(***************************************************************************)
EXTENDS Integers, Sequences, FiniteSets, TLC

\* ------------------------------------------------------------------ bounds
\* contact numbers are 1..MaxContact
MaxContact == 3
\* a scheme has at most MaxRows rows
MaxRows == 2
\* a structured container records at most MaxRecorded channels
MaxRecorded == 2
\* samples per channel of a recording
NSamples == 3
\* relative times are -MaxRelMs..MaxRelMs milliseconds
MaxRelMs == 3
\* events of one file
MaxEvents == 2
\* file names of up to MaxNameLen characters are tried exhaustively
MaxNameLen == 4
\* at most MaxSeries series are concatenated
MaxSeries == 2
\* the events of a batch are in at most MaxFiles files
MaxFiles == 2
\* a batch whose order matters has at most MaxBatch events
MaxBatch == 3
\* at most MaxObjects CMLReader objects are built
MaxObjects == 2
\* and at most MaxRequests readers are requested from them
MaxRequests == 3
\* width of a sample (data_format int16)
SampleBits == 16

\* ----------------------------------------------------------------- helpers
\* Python's None and a present value
None == <<>>
Some(x) == <<x>>

Pow2(n) == 2 ^ n
Max(a, b) == IF a >= b THEN a ELSE b
Min(a, b) == IF a <= b THEN a ELSE b
Range(s) == {s[i] : i \in DOMAIN s}
SeqsUpTo(S, lo, hi) == UNION {[1..k -> S] : k \in lo..hi}
IsInjective(s) == \A i, j \in DOMAIN s : s[i] = s[j] => i = j
IsSorted(s) == \A i, j \in DOMAIN s : i < j => s[i] < s[j]

\* a[mask]: the entries of a whose mask entry is TRUE, in order
RECURSIVE Select(_, _)
Select(a, mask) ==
    IF a = <<>> THEN <<>>
    ELSE IF Head(mask) THEN <<Head(a)>> \o Select(Tail(a), Tail(mask))
         ELSE Select(Tail(a), Tail(mask))

\* a value stored in the recording's integer dtype (two's complement)
ToDtype(x) == ((x + Pow2(SampleBits - 1)) % Pow2(SampleBits)) - Pow2(SampleBits - 1)
\* numpy's elementwise a - b of two rows of the recording's dtype
RowMinus(a, b) == [t \in DOMAIN a |-> ToDtype(a[t] - b[t])]

\* s[start:stop] of Python, stop = None meaning "to the end"
PySlice(s, start, stop) ==
    LET n  == Len(s)
        lo == IF start < 0 THEN Max(n + start, 0) ELSE Min(start, n)
        hi == IF stop = None THEN n
              ELSE IF stop[1] < 0 THEN Max(n + stop[1], 0) ELSE Min(stop[1], n)
    IN  SubSeq(s, lo + 1, hi)

\* the samples recorded for a channel: channel file number c of a split
\* recording, row c of a container or of a dense matrix
Signal(c) == [t \in 1..NSamples |-> ToDtype(c * 12345 * t + 7 * (t - 1))]

\* ------------------------------------------------------------------ inputs
ContactNums == 1..MaxContact

PairLabel(a, b) == <<a, b>>
ContactLabel(c) == <<c>>

NoScheme ==
    [form |-> "none", contact |-> <<>>, contact_1 |-> <<>>,
     contact_2 |-> <<>>, label |-> <<>>]
ContactScheme(cs) ==
    [form |-> "contacts", contact |-> cs, contact_1 |-> <<>>,
     contact_2 |-> <<>>, label |-> [k \in DOMAIN cs |-> ContactLabel(cs[k])]]
PairScheme(ps) ==
    [form |-> "pairs", contact |-> <<>>,
     contact_1 |-> [k \in DOMAIN ps |-> ps[k][1]],
     contact_2 |-> [k \in DOMAIN ps |-> ps[k][2]],
     label |-> [k \in DOMAIN ps |-> PairLabel(ps[k][1], ps[k][2])]]

\* bipolar derivations between two different contacts
DistinctPairs == {p \in ContactNums \X ContactNums : p[1] # p[2]}
AllPairs == ContactNums \X ContactNums

ContactSchemes == {ContactScheme(cs) : cs \in SeqsUpTo(ContactNums, 0, MaxRows)}
Schemes ==
    {NoScheme} \cup ContactSchemes
    \cup {PairScheme(ps) : ps \in SeqsUpTo(DistinctPairs, 0, MaxRows)}
\* the schemes given to a reader of an already bipolar recording, among them
\* rows naming one contact twice
BipolarSchemes ==
    {NoScheme} \cup ContactSchemes
    \cup {PairScheme(ps) : ps \in SeqsUpTo(AllPairs, 0, MaxRows)}

\* the epochs a reader is constructed with
EpochLists ==
    {<<[start |-> 0, stop |-> Some(NSamples - 1)],
       [start |-> 1, stop |-> Some(NSamples)]>>}

SortedFiles == {s \in SeqsUpTo(ContactNums, 0, MaxContact) : IsSorted(s)}
ExampleFiles == [i \in 1..10 |-> i]

NoRecording ==
    [files |-> <<>>, wildcard_files |-> <<>>, raw_channels |-> 0,
     monopolar_possible |-> None, has_bipolar_info |-> FALSE,
     ch0_label |-> <<>>, ch1_label |-> <<>>, ports |-> <<>>, orient |-> "none"]

\* one file per channel: the files the literal pattern finds and the files
\* the relaxed pattern finds
SplitRecordings ==
    {[NoRecording EXCEPT !.files = f, !.wildcard_files = f] :
        f \in SortedFiles \ {<<>>}}
    \cup {[NoRecording EXCEPT !.wildcard_files = f] : f \in SortedFiles}
    \cup {[NoRecording EXCEPT !.files = ExampleFiles,
                              !.wildcard_files = ExampleFiles]}

NumpyRecordings ==
    {[NoRecording EXCEPT !.raw_channels = n] : n \in 1..MaxContact}

Orients == {"row", "none"}

\* a container of monopolar channels: no bipolar_info, the ports in any order
MonopolarRecordings(flags, orients) ==
    {[NoRecording EXCEPT !.monopolar_possible = m, !.ports = p, !.orient = o] :
        m \in flags,
        p \in {s \in SeqsUpTo(ContactNums, 1, MaxRecorded) : IsInjective(s)},
        o \in orients}

\* a container of recorded bipolar pairs, one port per recorded channel
BipolarRecordings(flags) ==
    {[NoRecording EXCEPT !.monopolar_possible = m, !.has_bipolar_info = TRUE,
                         !.ch0_label = [i \in DOMAIN b |-> b[i][1]],
                         !.ch1_label = [i \in DOMAIN b |-> b[i][2]],
                         !.ports = [i \in DOMAIN b |-> i], !.orient = o] :
        m \in flags, b \in SeqsUpTo(DistinctPairs, 1, MaxRecorded), o \in Orients}

\* ------------------------------------------------------------------- state
VARIABLES
    kind,                    \* the reader class
    scheme,                  \* BaseEEGReader.scheme
    epochs,                  \* BaseEEGReader.epochs
    recording,               \* what is on disk under BaseEEGReader.filename
    unique_contacts,         \* BaseEEGReader._unique_contacts
    rereferencing_possible,  \* BaseEEGReader.rereferencing_possible
    pc,                      \* "constructed", "read", "rereferenced", ...
    data,                    \* the array read() returned
    contacts,                \* the contacts read() returned
    reref,                   \* the array rereference() returned
    labels,                  \* the labels rereference() returned
    warned,                  \* a MissingChannelsWarning was emitted
    error,                   \* the exception raised, "" when none
    events,                  \* as_timeseries: eegoffset of the file's events
    n_events,                \* as_timeseries: len(events), all files
    rel_start,               \* as_timeseries argument
    rel_stop,                \* as_timeseries argument
    sample_rate,             \* sources["sample_rate"]
    ts_epochs,               \* as_timeseries: the epochs computed
    ts_pc,                   \* "start", "checked", "epochs", "ValueError"
    basename,                \* _get_reader_class: the file name, a character list
    reader_class,            \* _get_reader_class: the class returned
    entry,                   \* "load_eeg" (CMLReader) or "load" (EEGReader)
    args,                    \* the caller's events, rel_start, rel_stop
    cml,                     \* subject and session the reader was built with
    task_events,             \* the session's events on disk that name an eegfile
    kwargs,                  \* the keyword arguments EEGReader.load receives
    load_pc,                 \* "called", "load", "as_timeseries", "..._failed"
    load_error,              \* the exception a load raised, "" when none
    series,                  \* TimeSeries.concatenate: the series given
    dim,                     \* TimeSeries.concatenate: the dimension given
    combined,                \* the series concatenate returned, None before
    cat_error,               \* the exception concatenate raised, "" when none
    disk,                    \* as_timeseries: the recording under each eegfile
    asm,                     \* as_timeseries: its arguments and its locals
    scalp_reader,            \* ScalpEEGReader.read and the crop that follows it
    router,                  \* CMLReader objects and the cache of their readers
    loader,                  \* an EEGReader and the loads made through it
    ctor,                    \* TimeSeries.__init__: its arguments and its outcome
    dispatch                 \* as_timeseries: the reader and the epochs of a file

rvars == <<kind, scheme, epochs, recording, unique_contacts,
           rereferencing_possible, pc, data, contacts, reref, labels,
           warned, error>>
tvars == <<events, n_events, rel_start, rel_stop, sample_rate, ts_epochs, ts_pc>>
nvars == <<basename, reader_class>>
\* everything but the state of one format reader and of one conversion
lvars == <<entry, args, cml, task_events, kwargs, load_pc, load_error>>
cvars == <<series, dim, combined, cat_error>>
avars == <<disk, asm>>
xvars == <<scalp_reader, router, loader, ctor, dispatch>>
ovars == <<nvars, lvars, cvars, avars, xvars>>
vars == <<rvars, tvars, ovars>>

\* --------------------------------------------------------- BaseEEGReader
SchemeType(sch) == sch.form

\* __init__: the contacts the scheme names, None without a scheme
UniqueContacts(sch) ==
    IF SchemeType(sch) = "contacts" THEN Some(Range(sch.contact))
    ELSE IF SchemeType(sch) = "pairs"
         THEN Some(Range(sch.contact_1) \cup Range(sch.contact_2))
         ELSE None

\* mutant: the contact number taken as a 0-based index
include_contact_zero_based(uc, contact_num) ==
    IF uc # None THEN (contact_num - 1) \in uc[1] ELSE TRUE

include_contact(uc, contact_num) ==
    IF uc # None THEN contact_num \in uc[1] ELSE TRUE

\* rereference, lines 197-200: contact_to_index as a dict, the last position
\* of a contact winning
InMap(cts, c) == \E i \in DOMAIN cts : cts[i] = c
contact_to_index(cts, c) ==
    CHOOSE i \in DOMAIN cts :
        cts[i] = c /\ \A j \in DOMAIN cts : cts[j] = c => j <= i

\* [contact_to_index[c] for c in column if c in contact_to_index]
RECURSIVE PresentIndices(_, _)
PresentIndices(column, cts) ==
    IF column = <<>> THEN <<>>
    ELSE IF InMap(cts, Head(column))
         THEN <<contact_to_index(cts, Head(column))>>
              \o PresentIndices(Tail(column), cts)
         ELSE PresentIndices(Tail(column), cts)

\* numpy: may arrays of n1 and n2 rows be subtracted, and the rows of a - b
Broadcastable(n1, n2) == n1 = n2 \/ n1 = 1 \/ n2 = 1
BroadcastMinus(a, b) ==
    LET n1 == Len(a)
        n2 == Len(b)
        n  == IF n1 = n2 THEN n1 ELSE IF n1 = 1 THEN n2 ELSE n1
    IN  [k \in 1..n |-> RowMinus(a[IF n1 = 1 THEN 1 ELSE k],
                                 b[IF n2 = 1 THEN 1 ELSE k])]

Result(err, arr, lab, warn) ==
    [error |-> err, reref |-> arr, labels |-> lab, warned |-> warn]

\* mutant: contact_2 - contact_1
RereferencePairsSwapped(sch, d, cts) ==
    LET c1 == PresentIndices(sch.contact_2, cts)
        c2 == PresentIndices(sch.contact_1, cts)
    IN  IF ~Broadcastable(Len(c1), Len(c2))
        THEN Result("ValueError", <<>>, <<>>, FALSE)
        ELSE Result("",
                    [i \in DOMAIN d |->
                        BroadcastMinus([k \in DOMAIN c1 |-> d[i][c1[k]]],
                                       [k \in DOMAIN c2 |-> d[i][c2[k]]])],
                    sch.label, FALSE)

\* the pair branch of BaseEEGReader.rereference
RereferencePairs(sch, d, cts) ==
    LET c1 == PresentIndices(sch.contact_1, cts)
        c2 == PresentIndices(sch.contact_2, cts)
    IN  IF ~Broadcastable(Len(c1), Len(c2))
        THEN Result("ValueError", <<>>, <<>>, FALSE)
        ELSE Result("",
                    [i \in DOMAIN d |->
                        BroadcastMinus([k \in DOMAIN c1 |-> d[i][c1[k]]],
                                       [k \in DOMAIN c2 |-> d[i][c2[k]]])],
                    sch.label, FALSE)

\* mutant: the rows of the scheme's contacts in the order of the recording
RereferenceContactsInFileOrder(sch, d, cts) ==
    IF \E k \in DOMAIN sch.contact : ~InMap(cts, sch.contact[k])
    THEN Result("KeyError", <<>>, <<>>, FALSE)
    ELSE LET mask == [p \in DOMAIN cts |-> cts[p] \in Range(sch.contact)]
         IN  Result("", [i \in DOMAIN d |-> Select(d[i], mask)],
                    sch.label, FALSE)

\* the contact branch of BaseEEGReader.rereference
RereferenceContacts(sch, d, cts) ==
    IF \E k \in DOMAIN sch.contact : ~InMap(cts, sch.contact[k])
    THEN Result("KeyError", <<>>, <<>>, FALSE)
    ELSE LET channels == [k \in DOMAIN sch.contact |->
                             contact_to_index(cts, sch.contact[k])]
         IN  Result("",
                    [i \in DOMAIN d |->
                        [k \in DOMAIN channels |-> d[i][channels[k]]]],
                    sch.label, FALSE)

BaseRereference(sch, d, cts) ==
    IF SchemeType(sch) = "pairs" THEN RereferencePairs(sch, d, cts)
    ELSE RereferenceContacts(sch, d, cts)

\* -------------------------------------------------------- NumpyEEGReader
\* raw[:, e[0]:(e[1] if e[1] > 0 else None)]; None > 0 is a TypeError
NumpyStop(stop) == IF stop[1] > 0 THEN stop ELSE None
NumpyData(n, eps) ==
    [e \in DOMAIN eps |->
        [c \in 1..n |->
            PySlice(Signal(c), eps[e].start, NumpyStop(eps[e].stop))]]

NumpyRead ==
    /\ pc = "constructed"
    /\ kind = "numpy"
    /\ IF \E e \in DOMAIN epochs : epochs[e].stop = None
       THEN /\ pc' = "read_failed"
            /\ error' = "TypeError"
            /\ UNCHANGED <<data, contacts>>
       ELSE /\ data' = NumpyData(recording.raw_channels, epochs)
            /\ contacts' = [i \in 1..recording.raw_channels |-> i]
            /\ pc' = "read"
            /\ error' = ""
    /\ UNCHANGED <<kind, scheme, epochs, recording, unique_contacts,
                   rereferencing_possible, reref, labels, warned>>
    /\ UNCHANGED tvars
    /\ UNCHANGED ovars

\* -------------------------------------------------------- SplitEEGReader
\* the files of the literal pattern, else those of the relaxed pattern
SplitFiles(rec) == IF Len(rec.files) = 0 THEN rec.wildcard_files ELSE rec.files

\* the numeric suffixes of the files that pass include_contact, in file order
RECURSIVE SplitContacts(_, _)
SplitContacts(files, uc) ==
    IF files = <<>> THEN <<>>
    ELSE IF ~include_contact(uc, Head(files))
         THEN SplitContacts(Tail(files), uc)
         ELSE <<Head(files)>> \o SplitContacts(Tail(files), uc)

SplitData(cts, eps) ==
    [e \in DOMAIN eps |->
        [m \in DOMAIN cts |->
            PySlice(Signal(cts[m]), eps[e].start, eps[e].stop)]]

SplitRead ==
    /\ pc = "constructed"
    /\ kind = "split"
    /\ IF Len(SplitFiles(recording)) = 0
       THEN /\ pc' = "read_failed"
            /\ error' = "ValueError"
            /\ UNCHANGED <<data, contacts>>
       ELSE /\ contacts' = SplitContacts(SplitFiles(recording), unique_contacts)
            /\ data' = SplitData(contacts', epochs)
            /\ pc' = "read"
            /\ error' = ""
    /\ UNCHANGED <<kind, scheme, epochs, recording, unique_contacts,
                   rereferencing_possible, reref, labels, warned>>
    /\ UNCHANGED tvars
    /\ UNCHANGED ovars

\* --------------------------------------------------- RamulatorHDF5Reader
\* hfile['/timeseries']: time x channel when orient is b'row', else
\* channel x time
Timeseries(rec) ==
    IF rec.orient = "row"
    THEN [t \in 1..NSamples |-> [p \in DOMAIN rec.ports |-> Signal(p)[t]]]
    ELSE [p \in DOMAIN rec.ports |-> Signal(p)]

Transpose(m, ncols) == [c \in 1..ncols |-> [r \in DOMAIN m |-> m[r][c]]]

\* the recorded pairs (ch0_label, ch1_label) of bipolar_info
AllNums(rec) == [i \in DOMAIN rec.ch0_label |-> <<rec.ch0_label[i], rec.ch1_label[i]>>]
Reversed(pair) == <<pair[2], pair[1]>>

\* mutant: only a pair seen earlier in the same contact order is dropped
DuplicateMaskSameOrder(all_nums) ==
    [i \in DOMAIN all_nums |->
        ~(\E j \in 1..(i - 1) : all_nums[j] = all_nums[i])]

\* the mask of channels to keep: a recorded pair seen earlier in the file, in
\* either order, is dropped
DuplicateMask(all_nums) ==
    [i \in DOMAIN all_nums |->
        ~(\/ \E j \in 1..(i - 1) : all_nums[j] = all_nums[i]
          \/ \E j \in 1..(i - 1) : all_nums[j] = Reversed(all_nums[i]))]

Hdf5Idxs(rec) ==
    IF rec.has_bipolar_info THEN DuplicateMask(AllNums(rec))
    ELSE [i \in DOMAIN rec.ports |-> TRUE]

Hdf5Data(rec, idxs, eps) ==
    LET ts == Timeseries(rec)
    IN  IF rec.orient = "row"
        THEN [e \in DOMAIN eps |->
                LET rows == PySlice(ts, eps[e].start, eps[e].stop)
                    kept == [r \in DOMAIN rows |-> Select(rows[r], idxs)]
                IN  Transpose(kept, Len(Select(rec.ports, idxs)))]
        ELSE [e \in DOMAIN eps |->
                LET kept == Select(ts, idxs)
                IN  [c \in DOMAIN kept |->
                        PySlice(kept[c], eps[e].start, eps[e].stop)]]

\* bool(hfile['monopolar_possible'][0]), the attribute kept when the key is
\* missing
Hdf5Possible(rec, possible) ==
    IF rec.monopolar_possible = None THEN possible
    ELSE rec.monopolar_possible[1] # 0

Hdf5Read ==
    /\ pc = "constructed"
    /\ kind = "hdf5"
    /\ rereferencing_possible' = Hdf5Possible(recording, rereferencing_possible)
    /\ data' = Hdf5Data(recording, Hdf5Idxs(recording), epochs)
    /\ contacts' = Select(recording.ports, Hdf5Idxs(recording))
    /\ pc' = "read"
    /\ error' = ""
    /\ UNCHANGED <<kind, scheme, epochs, recording, unique_contacts,
                   reref, labels, warned>>
    /\ UNCHANGED tvars
    /\ UNCHANGED ovars

\* the mask of scheme rows taken as present in the recording
ValidMask(sch, all_nums) ==
    [k \in DOMAIN sch.contact_1 |->
        /\ sch.contact_1[k] \in {all_nums[i][1] : i \in DOMAIN all_nums}
        /\ sch.contact_2[k] \in {all_nums[i][2] : i \in DOMAIN all_nums}]

\* the mask of recorded channels a valid scheme row names, in either order
ChannelInds(scheme_nums, all_nums) ==
    [i \in DOMAIN all_nums |->
        \/ all_nums[i] \in Range(scheme_nums)
        \/ Reversed(all_nums[i]) \in Range(scheme_nums)]

Hdf5Rereference(sch, d, cts, rec, possible) ==
    IF possible \/ SchemeType(sch) = "contacts"
    THEN BaseRereference(sch, d, cts)
    ELSE IF ~rec.has_bipolar_info THEN Result("KeyError", <<>>, <<>>, FALSE)
    ELSE IF AllNums(rec) = <<>> THEN Result("IndexError", <<>>, <<>>, FALSE)
    ELSE
        LET all_nums == AllNums(rec)
            valid_mask == ValidMask(sch, all_nums)
            n_valid == Len(Select(sch.label, valid_mask))
            scheme_nums ==
                Select([k \in DOMAIN sch.contact_1 |->
                           <<sch.contact_1[k], sch.contact_2[k]>>], valid_mask)
            channel_inds == ChannelInds(scheme_nums, all_nums)
            warn == n_valid < Len(sch.label)
        IN  IF n_valid = 0
            THEN Result("RereferencingNotPossibleError", <<>>, <<>>, FALSE)
            ELSE IF \E i \in DOMAIN d : Len(channel_inds) # Len(d[i])
            THEN Result("IndexError", <<>>, <<>>, warn)
            ELSE Result("",
                        [i \in DOMAIN d |-> Select(d[i], channel_inds)],
                        Select(sch.label, valid_mask), warn)

\* reader.rereference(data, info), called when a scheme was given
Rereference ==
    /\ pc = "read"
    /\ scheme.form # "none"
    /\ LET r == IF kind = "hdf5"
                THEN Hdf5Rereference(scheme, data, contacts, recording,
                                     rereferencing_possible)
                ELSE BaseRereference(scheme, data, contacts)
       IN  /\ reref' = r.reref
           /\ labels' = r.labels
           /\ warned' = r.warned
           /\ error' = r.error
           /\ pc' = IF r.error = "" THEN "rereferenced" ELSE "reref_failed"
    /\ UNCHANGED <<kind, scheme, epochs, recording, unique_contacts,
                   rereferencing_possible, data, contacts>>
    /\ UNCHANGED tvars
    /\ UNCHANGED ovars

\* ----------------------------------------------------------- the readers
\* _get_reader_class has not been called
NameIdle ==
    /\ basename = <<>>
    /\ reader_class = ""

\* no keyword arguments
NoKwargs == [events |-> None, rel_start |-> None, rel_stop |-> None]

\* no load was called
LoadIdle ==
    /\ entry = ""
    /\ args = NoKwargs
    /\ cml = [subject |-> "", session |-> None]
    /\ task_events = <<>>
    /\ kwargs = NoKwargs
    /\ load_pc = "idle"
    /\ load_error = ""

\* concatenate has not been called
ConcatIdle ==
    /\ series = <<>>
    /\ dim = ""
    /\ combined = None
    /\ cat_error = ""

\* as_timeseries is not assembling the files of a batch
AssemblerIdle ==
    /\ disk = <<>>
    /\ asm = [events |-> <<>>, rel_start |-> 0, rel_stop |-> 0, todo |-> <<>>,
              reader |-> None, info |-> <<>>, pc |-> "idle", error |-> ""]

\* no scalp recording is read
ScalpIdle == scalp_reader = None
\* no CMLReader was built
RouterIdle == router = None
\* no EEGReader is used
LoaderIdle == loader = None
\* no TimeSeries is constructed directly
CtorIdle == ctor = None
\* no reader is selected
DispatchIdle == dispatch = None

OthersIdle ==
    /\ NameIdle
    /\ LoadIdle
    /\ ConcatIdle
    /\ AssemblerIdle
    /\ ScalpIdle
    /\ RouterIdle
    /\ LoaderIdle
    /\ CtorIdle
    /\ DispatchIdle

ReaderInit(k, recordings, schemes) ==
    /\ kind = k
    /\ recording \in recordings
    /\ scheme \in schemes
    /\ epochs \in EpochLists
    /\ unique_contacts = UniqueContacts(scheme)
    /\ rereferencing_possible = TRUE
    /\ pc = "constructed"
    /\ data = <<>>
    /\ contacts = <<>>
    /\ reref = <<>>
    /\ labels = <<>>
    /\ warned = FALSE
    /\ error = ""

TsIdle ==
    /\ events = <<>>
    /\ n_events = 0
    /\ rel_start = 0
    /\ rel_stop = 0
    /\ sample_rate = 0
    /\ ts_epochs = <<>>
    /\ ts_pc = "idle"

\* the readers that use the default rereferencing: one file per channel, a
\* dense matrix, and a container of monopolar channels written as the test
\* fixture writes it (monopolar_possible = 1, orient = b'row')
Init ==
    /\ \/ ReaderInit("split", SplitRecordings, Schemes)
       \/ ReaderInit("numpy", NumpyRecordings, Schemes)
       \/ ReaderInit("hdf5", MonopolarRecordings({Some(1)}, {"row"}), Schemes)
    /\ TsIdle
    /\ OthersIdle

Next ==
    \/ SplitRead
    \/ NumpyRead
    \/ Hdf5Read
    \/ Rereference

Spec == Init /\ [][Next]_vars

\* a container of recorded bipolar pairs that cannot be rereferenced
InitHdf5 ==
    /\ ReaderInit("hdf5", BipolarRecordings({Some(0)}), BipolarSchemes)
    /\ TsIdle
    /\ OthersIdle

NextHdf5 ==
    \/ Hdf5Read
    \/ Rereference

SpecHdf5 == InitHdf5 /\ [][NextHdf5]_vars

\* read() of every container; read() does not consult the scheme
InitHdf5Read ==
    /\ ReaderInit("hdf5",
                  BipolarRecordings({None, Some(0), Some(1)})
                  \cup MonopolarRecordings({None, Some(1)}, Orients),
                  {NoScheme})
    /\ TsIdle
    /\ OthersIdle

NextHdf5Read == Hdf5Read

SpecHdf5Read == InitHdf5Read /\ [][NextHdf5Read]_vars

\* ------------------------------------------- EEGReader.as_timeseries
\* Python's round(num / den), den > 0: to the nearest integer, a tie to the
\* even one
Round(num, den) ==
    LET q == num \div den
        r == num % den
    IN  IF 2 * r < den THEN q
        ELSE IF 2 * r > den THEN q + 1
        ELSE IF q % 2 = 0 THEN q ELSE q + 1

\* convert.events_to_epochs: one (start, stop) per event
events_to_epochs(ev, rs, re, rate) ==
    [i \in DOMAIN ev |->
        [start |-> ev[i] + Round(rs * rate, 1000),
         stop  |-> Some(ev[i] + Round(re * rate, 1000))]]

\* mutant: rel_stop and rel_start exchanged
AsTimeseriesEpochsSwapped(ev, n, rs, re, rate) ==
    IF rs = 0 /\ re = -1 /\ n = 1
    THEN <<[start |-> 0, stop |-> None]>>
    ELSE events_to_epochs(ev, re, rs, rate)

\* mutant: the whole-session epoch for the window (0, -1) whatever the number
\* of events
AsTimeseriesEpochsAnyCount(ev, n, rs, re, rate) ==
    IF rs = 0 /\ re = -1
    THEN <<[start |-> 0, stop |-> None]>>
    ELSE events_to_epochs(ev, rs, re, rate)

\* the epochs of one file's events ev, n being len(events) of all files
AsTimeseriesEpochs(ev, n, rs, re, rate) ==
    IF rs = 0 /\ re = -1 /\ n = 1
    THEN <<[start |-> 0, stop |-> None]>>
    ELSE events_to_epochs(ev, rs, re, rate)

\* line 633: the window as_timeseries rejects
WindowRejected(rs, re) == rs # 0 /\ re # -1 /\ rs > re

SampleRates == {250, 500, 1000}
EegOffsets == {0, 1, 1000}
RelTimes == (0 - MaxRelMs)..MaxRelMs

\* the sanity check on the offsets
CheckWindow ==
    /\ ts_pc = "start"
    /\ ts_pc' = IF WindowRejected(rel_start, rel_stop)
                THEN "ValueError" ELSE "checked"
    /\ UNCHANGED <<events, n_events, rel_start, rel_stop, sample_rate, ts_epochs>>
    /\ UNCHANGED rvars
    /\ UNCHANGED ovars

\* convert the events of a file to epochs
ConvertEvents ==
    /\ ts_pc = "checked"
    /\ ts_epochs' = AsTimeseriesEpochs(events, n_events, rel_start, rel_stop,
                                       sample_rate)
    /\ ts_pc' = "epochs"
    /\ UNCHANGED <<events, n_events, rel_start, rel_stop, sample_rate>>
    /\ UNCHANGED rvars
    /\ UNCHANGED ovars

ReaderIdle ==
    /\ kind = "none"
    /\ recording = NoRecording
    /\ scheme = NoScheme
    /\ epochs = <<>>
    /\ unique_contacts = None
    /\ rereferencing_possible = TRUE
    /\ pc = "idle"
    /\ data = <<>>
    /\ contacts = <<>>
    /\ reref = <<>>
    /\ labels = <<>>
    /\ warned = FALSE
    /\ error = ""

\* as_timeseries(events, rel_start, rel_stop) at one of the files of the
\* events: the file has 1..MaxEvents events, the other files at most one more
InitEpochs ==
    /\ events \in SeqsUpTo(EegOffsets, 1, MaxEvents)
    /\ n_events \in {Len(events), Len(events) + 1}
    /\ rel_start \in RelTimes
    /\ rel_stop \in RelTimes
    /\ sample_rate \in SampleRates
    /\ ts_epochs = <<>>
    /\ ts_pc = "start"
    /\ ReaderIdle
    /\ OthersIdle

NextEpochs ==
    \/ CheckWindow
    \/ ConvertEvents

SpecEpochs == InitEpochs /\ [][NextEpochs]_vars

\* ------------------------------------------ EEGReader._get_reader_class
\* file names are lists of characters
EndsWith(s, suffix) ==
    /\ Len(s) >= Len(suffix)
    /\ SubSeq(s, Len(s) - Len(suffix) + 1, Len(s)) = suffix

H5 == <<".", "h", "5">>
BDF == <<".", "b", "d", "f">>
MFF == <<".", "m", "f", "f">>
RAW == <<".", "r", "a", "w">>
NPY == <<".", "n", "p", "y">>

\* mutant: '.raw' left out of the scalp suffixes
get_reader_class_without_raw(name) ==
    IF EndsWith(name, H5) THEN "RamulatorHDF5Reader"
    ELSE IF EndsWith(name, BDF) \/ EndsWith(name, MFF)
         THEN "ScalpEEGReader"
    ELSE IF EndsWith(name, NPY) THEN "NumpyEEGReader"
    ELSE "SplitEEGReader"

get_reader_class(name) ==
    IF EndsWith(name, H5) THEN "RamulatorHDF5Reader"
    ELSE IF EndsWith(name, BDF) \/ EndsWith(name, MFF) \/ EndsWith(name, RAW)
         THEN "ScalpEEGReader"
    ELSE IF EndsWith(name, NPY) THEN "NumpyEEGReader"
    ELSE "SplitEEGReader"

\* the names tried: every name of up to MaxNameLen characters of '.h5' and
\* '.npy', and a stem followed by a suffix or a near miss of one
NameChars == {".", "h", "5", "n", "p", "y"}
Stems == {<<>>, <<"e">>, <<"e", ".", "h", "5">>, <<".", "n", "p", "y", "_">>}
Endings ==
    {<<>>, H5, BDF, MFF, RAW, NPY, <<".", "H", "5">>, <<"h", "5">>,
     <<"b", "d", "f">>, <<".", "r", "a", "w", ".", "0", "0", "1">>,
     <<".", "m", "f", "f", "/">>, <<".", "0", "0", "1">>,
     <<".", "h", "5", ".", "n", "p", "y">>, <<".", "r", "a", "w", ".", "h", "5">>}
Basenames ==
    SeqsUpTo(NameChars, 0, MaxNameLen)
    \cup {stem \o ending : stem \in Stems, ending \in Endings}

GetReaderClass ==
    /\ reader_class = ""
    /\ reader_class' = get_reader_class(basename)
    /\ UNCHANGED basename
    /\ UNCHANGED <<rvars, tvars, lvars, cvars, avars, xvars>>

InitReaderClass ==
    /\ basename \in Basenames
    /\ reader_class = ""
    /\ ReaderIdle
    /\ TsIdle
    /\ LoadIdle
    /\ ConcatIdle
    /\ AssemblerIdle
    /\ ScalpIdle
    /\ RouterIdle
    /\ LoaderIdle
    /\ CtorIdle
    /\ DispatchIdle

NextReaderClass == GetReaderClass

SpecReaderClass == InitReaderClass /\ [][NextReaderClass]_vars

\* ------------------------------- CMLReader.load_eeg and EEGReader.load
\* an events table is a list of rows; index is the row's label in the
\* DataFrame's index, kept when rows are filtered out
Column(table, name) == [i \in DOMAIN table |-> table[i][name]]
HasLabel(table, label) == \E i \in DOMAIN table : table[i].index = label
\* events[name][0]: the value in the row labelled 0
AtLabel(table, name, label) ==
    table[CHOOSE i \in DOMAIN table : table[i].index = label][name]

NonNegativeOffset(row) == row.eegoffset >= 0

\* the validation of CMLReader.load_eeg for given events: the exception it
\* raises, "" when none
LoadEegError(a, reader) ==
    LET ev == a.events[1]
    IN  IF Cardinality(Range(Column(ev, "subject"))) # 1 THEN "ValueError"
        ELSE IF ~HasLabel(ev, 0) THEN "KeyError"
        ELSE IF AtLabel(ev, "subject", 0) # reader.subject THEN "ValueError"
        ELSE IF Cardinality(Range(Column(ev, "session"))) # 1 THEN "ValueError"
        \* the message is built as str + int
        ELSE IF Some(AtLabel(ev, "session", 0)) # reader.session THEN "TypeError"
        ELSE IF a.rel_start = None \/ a.rel_stop = None
             THEN "IncompatibleParametersError"
        ELSE ""

\* CMLReader.load_eeg(events, rel_start, rel_stop)
LoadEeg ==
    /\ load_pc = "called"
    /\ entry = "load_eeg"
    /\ LET err == IF args.events # None THEN LoadEegError(args, cml) ELSE ""
       IN  /\ load_error' = err
           /\ load_pc' = IF err = "" THEN "load" ELSE "load_eeg_failed"
           /\ kwargs' = IF err = "" THEN args ELSE kwargs
    /\ UNCHANGED <<entry, args, cml, task_events>>
    /\ UNCHANGED <<rvars, tvars, nvars, cvars, avars, xvars>>

LoadResult(err, ev, rs, re) ==
    [error |-> err, events |-> ev, rel_start |-> rs, rel_stop |-> re]

\* mutant: the default window of a whole session is (0, 0)
EEGReaderLoadDefaultStopZero(kw, reader, on_disk) ==
    LET given == kw.events # None
        ev == IF given THEN SelectSeq(kw.events[1], NonNegativeOffset)
              ELSE [i \in 1..Min(Len(on_disk), 1) |->
                       [on_disk[1] EXCEPT !.index = 0]]
        rs == IF ~given /\ kw.rel_start = None THEN Some(0) ELSE kw.rel_start
        re == IF ~given /\ kw.rel_stop = None THEN Some(0) ELSE kw.rel_stop
    IN  IF ~given /\ reader.session = None
        THEN LoadResult("ValueError", <<>>, None, None)
        ELSE IF ~given /\ on_disk = <<>>
        THEN LoadResult("IndexError", <<>>, None, None)
        ELSE IF Len(ev) = 0 THEN LoadResult("ValueError", <<>>, None, None)
        ELSE IF Cardinality(Range(Column(ev, "subject"))) > 1
        THEN LoadResult("ValueError", <<>>, None, None)
        ELSE IF rs = None \/ re = None
        THEN LoadResult("IncompatibleParametersError", <<>>, None, None)
        ELSE LoadResult("", ev, rs, re)

\* EEGReader.load(**kw) up to its call of as_timeseries: the exception it
\* raises, or the events and the window it passes on
EEGReaderLoad(kw, reader, on_disk) ==
    LET given == kw.events # None
        \* events with eegoffset >= 0, or the first valid event of the session
        ev == IF given THEN SelectSeq(kw.events[1], NonNegativeOffset)
              ELSE [i \in 1..Min(Len(on_disk), 1) |->
                       [on_disk[1] EXCEPT !.index = 0]]
        rs == IF ~given /\ kw.rel_start = None THEN Some(0) ELSE kw.rel_start
        re == IF ~given /\ kw.rel_stop = None THEN Some(-1) ELSE kw.rel_stop
    IN  IF ~given /\ reader.session = None
        THEN LoadResult("ValueError", <<>>, None, None)
        ELSE IF ~given /\ on_disk = <<>>
        THEN LoadResult("IndexError", <<>>, None, None)
        ELSE IF Len(ev) = 0 THEN LoadResult("ValueError", <<>>, None, None)
        ELSE IF Cardinality(Range(Column(ev, "subject"))) > 1
        THEN LoadResult("ValueError", <<>>, None, None)
        ELSE IF rs = None \/ re = None
        THEN LoadResult("IncompatibleParametersError", <<>>, None, None)
        ELSE LoadResult("", ev, rs, re)

\* EEGReader.load(**kwargs), ending in the call of as_timeseries
Load ==
    /\ load_pc = "load"
    /\ LET r == EEGReaderLoad(kwargs, cml, task_events)
       IN  /\ load_error' = r.error
           /\ IF r.error # ""
              THEN /\ load_pc' = "load_failed"
                   /\ UNCHANGED tvars
              ELSE /\ load_pc' = "as_timeseries"
                   /\ events' = Column(r.events, "eegoffset")
                   /\ n_events' = Len(r.events)
                   /\ rel_start' = r.rel_start[1]
                   /\ rel_stop' = r.rel_stop[1]
                   /\ sample_rate' \in {500, 1000}
                   /\ ts_epochs' = <<>>
                   /\ ts_pc' = "start"
    /\ UNCHANGED <<entry, args, cml, task_events, kwargs>>
    /\ UNCHANGED <<rvars, nvars, cvars, avars, xvars>>

Subjects == {"R1111M", "R1161E"}
Sessions == {0, 1}
\* the rows of an events table: a subsequence, by label, of the rows
\* 0..MaxEvents of the table it was filtered from
EventRows ==
    [index : 0..MaxEvents, subject : Subjects, session : Sessions,
     eegoffset : {-1, 0}]
EventTables ==
    {t \in SeqsUpTo(EventRows, 0, MaxEvents) :
        \A i, j \in DOMAIN t : i < j => t[i].index < t[j].index}
\* rel_start or rel_stop as the caller gives it, None when omitted
RelArgs == {None, Some(-1), Some(1)}
\* the events of the reader's session that name an eegfile
TaskEvents ==
    {<<>>} \cup
    {<<[index |-> i, subject |-> "R1111M", session |-> 0, eegoffset |-> o]>> :
        i \in {0, 1}, o \in {-1, 0}}

InitLoad ==
    /\ entry \in {"load_eeg", "load"}
    /\ args \in [events : {None} \cup {Some(t) : t \in EventTables},
                 rel_start : RelArgs, rel_stop : RelArgs]
    /\ cml \in [subject : {"R1111M"}, session : {None, Some(0)}]
    /\ task_events \in IF args.events = None THEN TaskEvents
                       ELSE {<<>>}
    /\ kwargs = IF entry = "load" THEN args ELSE NoKwargs
    /\ load_pc = IF entry = "load" THEN "load" ELSE "called"
    /\ load_error = ""
    /\ ReaderIdle
    /\ TsIdle
    /\ NameIdle
    /\ ConcatIdle
    /\ AssemblerIdle
    /\ ScalpIdle
    /\ RouterIdle
    /\ LoaderIdle
    /\ CtorIdle
    /\ DispatchIdle

NextLoad ==
    \/ LoadEeg
    \/ Load
    \/ CheckWindow
    \/ ConvertEvents

SpecLoad == InitLoad /\ [][NextLoad]_vars

\* ------------------------------------------------------------ TimeSeries
\* the outcome of a call: the exception raised, or the value returned
Raise(exception) == [error |-> exception, value |-> None]
Return(v) == [error |-> "", value |-> Some(v)]

\* _make_time_array: np.arange(tstart, n_samples / rate + tstart, rate) with
\* rate = samplerate / 1000, for sample rates that are multiples of 1000 Hz
MakeTimeArray(tstart, samplerate, n_samples) ==
    LET rate  == samplerate \div 1000
        count == (n_samples + rate * rate - 1) \div (rate * rate)
    IN  [k \in 1..count |-> tstart + (k - 1) * rate]

\* mutant: the length of channels is not checked
TimeSeriesInitAnyChannels(d, shape, samplerate, eps, chans, tstart, attributes) ==
    IF Len(eps) # shape[1] THEN Raise("ValueError")
    ELSE Return([data |-> d, shape |-> shape, samplerate |-> samplerate,
                 time |-> MakeTimeArray(tstart, samplerate, shape[3]),
                 epochs |-> eps, channels |-> chans, attrs |-> attributes])

\* TimeSeries(data, samplerate, epochs, channels, tstart, attrs) for 3-D data
\* of the given shape
TimeSeriesInit(d, shape, samplerate, eps, chans, tstart, attributes) ==
    IF Len(eps) # shape[1] THEN Raise("ValueError")
    ELSE IF Len(chans) # shape[2] THEN Raise("ValueError")
    ELSE Return([data |-> d, shape |-> shape, samplerate |-> samplerate,
                 time |-> MakeTimeArray(tstart, samplerate, shape[3]),
                 epochs |-> eps, channels |-> chans, attrs |-> attributes])

\* the lists of a list, one after the other
RECURSIVE Flatten(_)
Flatten(lists) ==
    IF lists = <<>> THEN <<>> ELSE Head(lists) \o Flatten(Tail(lists))

\* mutant: the attributes merged with the last series winning
ChainMapLastWins(maps) ==
    LET keys == UNION {DOMAIN maps[i] : i \in DOMAIN maps}
    IN  [k \in keys |->
            maps[CHOOSE i \in DOMAIN maps :
                    /\ k \in DOMAIN maps[i]
                    /\ \A j \in DOMAIN maps : k \in DOMAIN maps[j] => j <= i][k]]

\* dict(ChainMap(*maps)): a key is looked up in the maps in order, so the
\* first map that has it gives its value
ChainMap(maps) ==
    LET keys == UNION {DOMAIN maps[i] : i \in DOMAIN maps}
    IN  [k \in keys |->
            maps[CHOOSE i \in DOMAIN maps :
                    /\ k \in DOMAIN maps[i]
                    /\ \A j \in DOMAIN maps : k \in DOMAIN maps[j] => i <= j][k]]

\* mutant: only the number of channels is compared
CheckChannelsByCount(ss) ==
    IF \A i \in DOMAIN ss : Len(ss[i].channels) = Len(ss[1].channels)
    THEN "" ELSE "ValueError"

CheckSamples(ss) ==
    IF \A i \in DOMAIN ss : ss[i].shape[3] = ss[1].shape[3]
    THEN "" ELSE "ValueError"

CheckChannels(ss) ==
    IF \A i \in DOMAIN ss : ss[i].channels = ss[1].channels
    THEN "" ELSE "ValueError"

\* check_starts from series i on, `last` being the expected end so far
RECURSIVE CheckStartsFrom(_, _, _)
CheckStartsFrom(ss, i, last) ==
    LET step == ss[1].samplerate \div 1000
    IN  IF i > Len(ss) THEN ""
        ELSE IF ss[i].time = <<>> THEN "IndexError"
        ELSE IF last + step # ss[i].time[1] THEN "ValueError"
        ELSE CheckStartsFrom(ss, i + 1, last + step)

CheckStarts(ss) ==
    IF Len(ss) = 1 THEN ""
    ELSE IF ss[1].time = <<>> THEN "IndexError"
    ELSE CheckStartsFrom(ss, 2, ss[1].time[Len(ss[1].time)])

\* dim == "events": np.concatenate along axis 0 of the data and of the epoch
\* lists (an empty list is a 1-D array, a list of pairs a 2-D one)
ConcatenateEvents(ss, attributes) ==
    LET d    == Flatten([i \in DOMAIN ss |-> ss[i].data])
        eps  == Flatten([i \in DOMAIN ss |-> ss[i].epochs])
    IN  IF CheckSamples(ss) # "" THEN Raise(CheckSamples(ss))
        ELSE IF CheckChannels(ss) # "" THEN Raise(CheckChannels(ss))
        ELSE IF \E i, j \in DOMAIN ss : (ss[i].epochs = <<>>) # (ss[j].epochs = <<>>)
        THEN Raise("ValueError")
        ELSE IF ss[1].time = <<>> THEN Raise("IndexError")
        ELSE TimeSeriesInit(d, <<Len(d), ss[1].shape[2], ss[1].shape[3]>>,
                            ss[1].samplerate, eps, ss[1].channels,
                            ss[1].time[1], attributes)

RECURSIVE SumSamples(_)
SumSamples(ss) ==
    IF ss = <<>> THEN 0 ELSE Head(ss).shape[3] + SumSamples(Tail(ss))

\* dim == "time": np.concatenate along axis 2
ConcatenateTime(ss, attributes) ==
    LET d == [e \in 1..ss[1].shape[1] |->
                [c \in 1..ss[1].shape[2] |->
                    Flatten([i \in DOMAIN ss |-> ss[i].data[e][c]])]]
    IN  IF CheckChannels(ss) # "" THEN Raise(CheckChannels(ss))
        ELSE IF CheckStarts(ss) # "" THEN Raise(CheckStarts(ss))
        ELSE IF \E i \in DOMAIN ss : ss[i].shape[1] # ss[1].shape[1]
        THEN Raise("ValueError")
        ELSE IF ss[1].time = <<>> THEN Raise("IndexError")
        ELSE TimeSeriesInit(d, <<ss[1].shape[1], ss[1].shape[2], SumSamples(ss)>>,
                            ss[1].samplerate, ss[1].epochs, ss[1].channels,
                            ss[1].time[1], attributes)

\* TimeSeries.concatenate(series, dim)
Concatenate(ss, dimension) ==
    IF dimension \notin {"events", "time"} THEN Raise("ValueError")
    ELSE IF ss = <<>> THEN Raise("IndexError")
    ELSE IF \E i \in DOMAIN ss : ss[i].samplerate # ss[1].samplerate
    THEN Raise("ValueError")
    ELSE LET attributes == ChainMap([i \in DOMAIN ss |-> ss[i].attrs])
         IN  IF dimension = "events" THEN ConcatenateEvents(ss, attributes)
             ELSE ConcatenateTime(ss, attributes)

\* the series given to concatenate: the samples of a series name the epoch,
\* the channel and the time they were read at
SeriesData(eps, chans, tstart, n_samples) ==
    [e \in DOMAIN eps |->
        [c \in DOMAIN chans |->
            [t \in 1..n_samples |-> <<eps[e].start, chans[c], tstart + t>>]]]

ASeries(samplerate, chans, n_samples, eps, tstart, attributes) ==
    TimeSeriesInit(SeriesData(eps, chans, tstart, n_samples),
                   <<Len(eps), Len(chans), n_samples>>, samplerate, eps,
                   chans, tstart, attributes).value[1]

\* count epochs of n_samples samples, the first starting at sample `first`
EpochsFrom(first, count, n_samples) ==
    [i \in 1..count |->
        [start |-> first + i - 1, stop |-> Some(first + i - 1 + n_samples)]]

ChannelLists == {<<"CH1", "CH2">>, <<"CH2", "CH1">>, <<"CH1">>}
AttrKeys == {"mne_info", "rereferencing_possible"}
AttrValues == {1, 2}
AttrMaps == UNION {[keys -> AttrValues] : keys \in SUBSET AttrKeys}
NoAttrs == CHOOSE a \in AttrMaps : DOMAIN a = {}

\* a series of one epoch, two channels and two samples at 1000 Hz, and its
\* variations: in epochs and samples, in sample rate and channels, in start
\* time, and in attributes
TimeSeriesInputs ==
    {ASeries(1000, <<"CH1", "CH2">>, n, EpochsFrom(first, count, n), 0, NoAttrs) :
        n \in 0..2, first \in {0, 5}, count \in 0..2}
    \cup {ASeries(rate, chans, 2, EpochsFrom(0, 1, 2), 0, NoAttrs) :
        rate \in {1000, 2000}, chans \in ChannelLists}
    \cup {ASeries(1000, <<"CH1", "CH2">>, n, EpochsFrom(0, 1, n), tstart, NoAttrs) :
        n \in 1..2, tstart \in {0, 1, 2}}
    \cup {ASeries(1000, <<"CH1", "CH2">>, 2, EpochsFrom(0, 1, 2), 0, a) :
        a \in AttrMaps}

ConcatenateCall ==
    /\ combined = None
    /\ cat_error = ""
    /\ LET r == Concatenate(series, dim)
       IN  /\ combined' = r.value
           /\ cat_error' = r.error
    /\ UNCHANGED <<series, dim>>
    /\ UNCHANGED <<rvars, tvars, nvars, lvars, avars, xvars>>

InitConcat ==
    /\ series \in SeqsUpTo(TimeSeriesInputs, 0, MaxSeries)
    /\ dim \in {"events", "time", "channels"}
    /\ combined = None
    /\ cat_error = ""
    /\ ReaderIdle
    /\ TsIdle
    /\ NameIdle
    /\ LoadIdle
    /\ AssemblerIdle
    /\ ScalpIdle
    /\ RouterIdle
    /\ LoaderIdle
    /\ CtorIdle
    /\ DispatchIdle

NextConcat == ConcatenateCall

SpecConcat == InitConcat /\ [][NextConcat]_vars

\* ------------------------- EEGReader.as_timeseries: the files of a batch
\* events["eegfile"].unique(): the values in order of first appearance
RECURSIVE Without(_, _)
Without(s, x) ==
    IF s = <<>> THEN <<>>
    ELSE IF Head(s) = x THEN Without(Tail(s), x)
    ELSE <<Head(s)>> \o Without(Tail(s), x)

RECURSIVE Unique(_)
Unique(s) ==
    IF s = <<>> THEN <<>>
    ELSE <<Head(s)>> \o Unique(Without(Tail(s), Head(s)))

\* events[events["eegfile"] == filename]
RECURSIVE EventsOf(_, _)
EventsOf(evs, filename) ==
    IF evs = <<>> THEN <<>>
    ELSE IF Head(evs).eegfile = filename
         THEN <<Head(evs)>> \o EventsOf(Tail(evs), filename)
         ELSE EventsOf(Tail(evs), filename)

ReadResult(err, d, cts, possible) ==
    [error |-> err, data |-> d, contacts |-> cts, possible |-> possible]

\* reader_class(filename, epochs, scheme=None).read(), with the reader's
\* rereferencing_possible after it
ReaderRead(file, eps) ==
    LET rec == file.recording
    IN  IF file.class = "SplitEEGReader"
        THEN IF Len(SplitFiles(rec)) = 0
             THEN ReadResult("ValueError", <<>>, <<>>, TRUE)
             ELSE LET cts == SplitContacts(SplitFiles(rec), None)
                  IN  ReadResult("", SplitData(cts, eps), cts, TRUE)
        ELSE IF file.class = "NumpyEEGReader"
        THEN IF \E e \in DOMAIN eps : eps[e].stop = None
             THEN ReadResult("TypeError", <<>>, <<>>, TRUE)
             ELSE ReadResult("", NumpyData(rec.raw_channels, eps),
                             [i \in 1..rec.raw_channels |-> i], TRUE)
        ELSE ReadResult("", Hdf5Data(rec, Hdf5Idxs(rec), eps),
                        Select(rec.ports, Hdf5Idxs(rec)),
                        Hdf5Possible(rec, TRUE))

\* "CH{}".format(n + 1) for n in range(data.shape[1])
ChannelNames == <<"CH1", "CH2", "CH3", "CH4", "CH5", "CH6", "CH7", "CH8">>

\* mutant: "CH{}".format(n), the labels counted from 0
SyntheticLabelsFromZero(n) ==
    [i \in 1..n |-> IF i = 1 THEN "CH0" ELSE ChannelNames[i - 1]]

SyntheticLabels(n) == [i \in 1..n |-> ChannelNames[i]]

\* the epochs of a read do not all have the same number of samples
Ragged(d) ==
    \E e \in DOMAIN d : \E c \in DOMAIN d[e] : Len(d[e][c]) # Len(d[1][1])

\* one pass of the loop for a file without a scheme: the exception raised or
\* the container built, the contacts read() returned as info, and the
\* reader's rereferencing_possible
FileResult(file, evs, n, rs, re) ==
    LET eps == AsTimeseriesEpochs(Column(evs, "eegoffset"), n, rs, re,
                                  file.sample_rate)
        r   == ReaderRead(file, eps)
    IN  IF r.error # ""
        THEN [error |-> r.error, value |-> None, info |-> <<>>,
              possible |-> TRUE]
        ELSE IF Ragged(r.data)
        THEN [error |-> "ValueError", value |-> None, info |-> r.contacts,
              possible |-> r.possible]
        ELSE LET made == TimeSeriesInit(
                            r.data,
                            <<Len(r.data), Len(r.data[1]), Len(r.data[1][1])>>,
                            file.sample_rate, eps,
                            SyntheticLabels(Len(r.data[1])), rs, NoAttrs)
             IN  [error |-> made.error, value |-> made.value,
                  info |-> r.contacts, possible |-> r.possible]

\* attrs[key] = value
SetAttr(a, key, value) ==
    [k \in DOMAIN a \cup {key} |-> IF k = key THEN value ELSE a[k]]

\* the sanity check on the offsets and the list of files
AsTimeseriesStart ==
    /\ asm.pc = "called"
    /\ asm' = IF WindowRejected(asm.rel_start, asm.rel_stop)
              THEN [asm EXCEPT !.pc = "failed", !.error = "ValueError"]
              ELSE [asm EXCEPT !.pc = "loop",
                               !.todo = Unique(Column(asm.events, "eegfile"))]
    /\ UNCHANGED <<disk, cvars>>
    /\ UNCHANGED <<rvars, tvars, nvars, lvars, xvars>>

\* mutant: the reader of the first pass is kept
LoopReaderFirst(previous, constructed) ==
    IF previous = None THEN constructed ELSE previous

\* `reader` after a pass of the loop: the variable is assigned in every pass
LoopReader(previous, constructed) == constructed

\* the body of the loop for the next file
ProcessFile ==
    /\ asm.pc = "loop"
    /\ asm.todo # <<>>
    /\ LET filename == Head(asm.todo)
           r == FileResult(disk[filename], EventsOf(asm.events, filename),
                           Len(asm.events), asm.rel_start, asm.rel_stop)
       IN  IF r.error # ""
           THEN /\ asm' = [asm EXCEPT !.pc = "failed", !.error = r.error]
                /\ UNCHANGED series
           ELSE /\ asm' = [asm EXCEPT
                              !.todo = Tail(asm.todo),
                              !.info = Append(@, r.info),
                              !.reader = LoopReader(asm.reader,
                                  Some([filename |-> filename,
                                        rereferencing_possible |-> r.possible]))]
                /\ series' = Append(series, r.value[1])
    /\ UNCHANGED <<disk, dim, combined, cat_error>>
    /\ UNCHANGED <<rvars, tvars, nvars, lvars, xvars>>

\* after the loop: the containers concatenated and the flag of `reader`, the
\* reader of the last pass, stored in the attrs
AsTimeseriesReturn ==
    /\ asm.pc = "loop"
    /\ asm.todo = <<>>
    /\ LET r == Concatenate(series, dim)
       IN  IF r.error # ""
           THEN /\ asm' = [asm EXCEPT !.pc = "failed", !.error = r.error]
                /\ cat_error' = r.error
                /\ UNCHANGED combined
           ELSE /\ asm' = [asm EXCEPT !.pc = "done"]
                /\ combined' =
                      Some([r.value[1] EXCEPT
                               !.attrs = SetAttr(@, "rereferencing_possible",
                                                 asm.reader[1].rereferencing_possible)])
                /\ UNCHANGED cat_error
    /\ UNCHANGED <<disk, series, dim>>
    /\ UNCHANGED <<rvars, tvars, nvars, lvars, xvars>>

\* the recordings a batch is read from, two channels each unless said
SplitFile(files) ==
    [class |-> "SplitEEGReader", sample_rate |-> 1000,
     recording |-> [NoRecording EXCEPT !.files = files, !.wildcard_files = files]]
NumpyFile ==
    [class |-> "NumpyEEGReader", sample_rate |-> 1000,
     recording |-> [NoRecording EXCEPT !.raw_channels = 2]]
MonopolarFile(flag) ==
    [class |-> "RamulatorHDF5Reader", sample_rate |-> 1000,
     recording |-> [NoRecording EXCEPT !.monopolar_possible = flag,
                                       !.ports = <<1, 2>>, !.orient = "row"]]
BipolarFile(flag) ==
    [class |-> "RamulatorHDF5Reader", sample_rate |-> 1000,
     recording |-> [NoRecording EXCEPT !.monopolar_possible = flag,
                                       !.has_bipolar_info = TRUE,
                                       !.ch0_label = <<1, 2>>,
                                       !.ch1_label = <<2, 3>>,
                                       !.ports = <<1, 2>>, !.orient = "row"]]
Files ==
    {SplitFile(<<1, 2>>), SplitFile(<<2, 3>>), NumpyFile, MonopolarFile(None),
     MonopolarFile(Some(1)), BipolarFile(Some(0))}

\* events of a batch: the file each is in and its offset
BatchRows == [eegfile : 1..MaxFiles, eegoffset : {0, 1}]
\* the windows used: two samples from the event on, and the whole session
Windows == {<<0, 2>>, <<0, -1>>}

InitAssemble ==
    /\ disk \in [1..MaxFiles -> Files]
    /\ \E evs \in SeqsUpTo(BatchRows, 1, MaxEvents), w \in Windows :
          asm = [events |-> evs, rel_start |-> w[1], rel_stop |-> w[2],
                 todo |-> <<>>, reader |-> None, info |-> <<>>,
                 pc |-> "called", error |-> ""]
    /\ series = <<>>
    /\ dim = "events"
    /\ combined = None
    /\ cat_error = ""
    /\ ReaderIdle
    /\ TsIdle
    /\ NameIdle
    /\ LoadIdle
    /\ ScalpIdle
    /\ RouterIdle
    /\ LoaderIdle
    /\ CtorIdle
    /\ DispatchIdle

NextAssemble ==
    \/ AsTimeseriesStart
    \/ ProcessFile
    \/ AsTimeseriesReturn

SpecAssemble == InitAssemble /\ [][NextAssemble]_vars

\* ------------------------------------- ScalpEEGReader.read with events
\* the variables of the readers, conversions, loads and batches above
yvars == <<rvars, tvars, nvars, lvars, cvars, avars>>

\* onset + sfreq * tmin < 0, with tmin = rel_start / 1000.
BeforeRecording(onset, sfreq, rs) == onset * 1000 + sfreq * rs < 0
\* onset + sfreq * tmax >= n_times, with tmax = rel_stop / 1000.
PastRecording(onset, sfreq, re, n_times) ==
    onset * 1000 + sfreq * re >= n_times * 1000

\* one pass of the first while loop: the first epoch is looked at
ScalpTruncatePre ==
    /\ scalp_reader # None
    /\ scalp_reader.pc = "pre"
    /\ scalp_reader' =
          IF scalp_reader.epochs = <<>>
          THEN [scalp_reader EXCEPT !.pc = "failed", !.error = "IndexError"]
          ELSE IF BeforeRecording(Head(scalp_reader.epochs), scalp_reader.sfreq,
                                  scalp_reader.rel_start)
          THEN [scalp_reader EXCEPT !.epochs = Tail(@),
                                    !.truncated_events_pre = @ + 1]
          ELSE [scalp_reader EXCEPT !.pc = "post"]
    /\ UNCHANGED <<router, loader, ctor, dispatch>>
    /\ UNCHANGED yvars

\* one pass of the second while loop: the last epoch is looked at
ScalpTruncatePost ==
    /\ scalp_reader # None
    /\ scalp_reader.pc = "post"
    /\ scalp_reader' =
          IF scalp_reader.epochs = <<>>
          THEN [scalp_reader EXCEPT !.pc = "failed", !.error = "IndexError"]
          ELSE IF PastRecording(scalp_reader.epochs[Len(scalp_reader.epochs)],
                                scalp_reader.sfreq, scalp_reader.rel_stop,
                                scalp_reader.n_times)
          THEN [scalp_reader EXCEPT
                   !.epochs = SubSeq(@, 1, Len(@) - 1),
                   !.truncated_events_post = @ + 1]
          ELSE [scalp_reader EXCEPT !.pc = "read"]
    /\ UNCHANGED <<router, loader, ctor, dispatch>>
    /\ UNCHANGED yvars

\* as_timeseries after the read: te_pre and te_post and the crop of the
\* onset and offset epochs and of the events
ScalpCrop ==
    /\ scalp_reader # None
    /\ scalp_reader.pc = "read"
    /\ LET pre     == scalp_reader.truncated_events_pre
           post    == scalp_reader.truncated_events_post
           te_pre  == IF pre > 0 THEN pre ELSE 0
           te_post == IF post > 0 THEN Some(0 - post) ELSE None
       IN  scalp_reader' =
              [scalp_reader EXCEPT
                  !.pc = "cropped",
                  !.on_off_epochs = PySlice(@, te_pre, te_post),
                  !.ev = PySlice(@, te_pre, te_post)]
    /\ UNCHANGED <<router, loader, ctor, dispatch>>
    /\ UNCHANGED yvars

\* the recordings are of ScalpSamples samples; the onsets of a batch are in
\* any order
ScalpSamples == NSamples + 1
ScalpOnsets == 0..(ScalpSamples - 1)
ScalpRates == {500, 1000}
ScalpWindows == {<<-1, 1>>, <<0, 2>>, <<-2, 0>>}

InitScalp ==
    /\ \E onsets \in SeqsUpTo(ScalpOnsets, 1, MaxBatch), w \in ScalpWindows,
          rate \in ScalpRates :
          scalp_reader =
              [ev |-> [i \in DOMAIN onsets |->
                          [index |-> i - 1, eegoffset |-> onsets[i]]],
               rel_start |-> w[1], rel_stop |-> w[2],
               sfreq |-> rate, n_times |-> ScalpSamples,
               on_off_epochs |->
                   AsTimeseriesEpochs(onsets, Len(onsets), w[1], w[2], rate),
               epochs |-> onsets,
               truncated_events_pre |-> 0, truncated_events_post |-> 0,
               pc |-> "pre", error |-> ""]
    /\ ReaderIdle
    /\ TsIdle
    /\ NameIdle
    /\ LoadIdle
    /\ ConcatIdle
    /\ AssemblerIdle
    /\ RouterIdle
    /\ LoaderIdle
    /\ CtorIdle
    /\ DispatchIdle

NextScalp ==
    \/ ScalpTruncatePre
    \/ ScalpTruncatePost
    \/ ScalpCrop

SpecScalp == InitScalp /\ [][NextScalp]_vars

\* --------------------------- CMLReader.get_reader and CMLReader.load
\* functools.lru_cache(): maxsize is 128
LruMaxsize == 128

\* the data types that have a reader
RegisteredTypes == {"eeg", "events", "all_events", "task_events"}
\* the arguments CMLReader objects are built with
ReaderArgs ==
    {[subject |-> "R1111M", experiment |-> Some("FR1"), session |-> Some(0)],
     [subject |-> "R1111M", experiment |-> Some("PS2"), session |-> Some(0)]}

\* experiment.startswith("PS") and the like
TaskEventsOnly(experiment) == experiment \in {"PS2", "TH1", "YC1", "Location"}

\* the key of a call of _construct_reader: lru_cache makes it of all the
\* positional arguments, self among them; a CMLReader defines neither
\* __eq__ nor __hash__, so self counts by identity
CacheKey(self, data_type) ==
    <<self, data_type, router.objects[self].subject,
      router.objects[self].experiment, router.objects[self].session>>

\* the tuple the reader is constructed from
ReaderTuple(self, data_type) ==
    <<data_type, router.objects[self].subject,
      router.objects[self].experiment, router.objects[self].session>>

CachePosition(key) ==
    CHOOSE i \in DOMAIN router.cache : router.cache[i].key = key

\* the cache after a call with the given key, the least recently used entry
\* first: a hit moves the entry to the end, a miss constructs a reader and
\* drops the first entry of a full cache
CacheAfter(key) ==
    IF \E i \in DOMAIN router.cache : router.cache[i].key = key
    THEN LET i == CachePosition(key)
         IN  SubSeq(router.cache, 1, i - 1)
             \o SubSeq(router.cache, i + 1, Len(router.cache))
             \o <<router.cache[i]>>
    ELSE LET kept == IF Len(router.cache) >= LruMaxsize
                     THEN Tail(router.cache) ELSE router.cache
         IN  Append(kept, [key |-> key, reader |-> router.n_readers + 1])

\* self._construct_reader(data_type, self.subject, ...): the router after
\* the call, the reader returned being the last entry of the cache
ConstructReader(self, data_type) ==
    LET cache  == CacheAfter(CacheKey(self, data_type))
        reader == cache[Len(cache)].reader
        tuple  == ReaderTuple(self, data_type)
    IN  [router EXCEPT
            !.cache = cache,
            !.n_readers = Max(@, reader),
            !.n_requests = @ + 1,
            !.returned =
                [t \in DOMAIN @ \cup {tuple} |->
                    IF t = tuple
                    THEN (IF t \in DOMAIN @ THEN @[t] ELSE {}) \cup {reader}
                    ELSE @[t]],
            !.error = ""]

\* CMLReader(subject, experiment, session)
NewCMLReader ==
    /\ router # None
    /\ Len(router.objects) < MaxObjects
    /\ \E a \in ReaderArgs :
          router' = [router EXCEPT !.objects = Append(@, a)]
    /\ UNCHANGED <<scalp_reader, loader, ctor, dispatch>>
    /\ UNCHANGED yvars

\* CMLReader.get_reader(data_type)
GetReader ==
    /\ router # None
    /\ router.n_requests < MaxRequests
    /\ \E self \in DOMAIN router.objects,
          data_type \in {"eeg", "all_events"} :
          router' = ConstructReader(self, data_type)
    /\ UNCHANGED <<scalp_reader, loader, ctor, dispatch>>
    /\ UNCHANGED yvars

\* CMLReader.load(data_type) up to the reader it loads from
RouterLoad ==
    /\ router # None
    /\ router.n_requests < MaxRequests
    /\ \E self \in DOMAIN router.objects,
          data_type \in {"eeg", "events", "epochs"} :
          router' =
              IF data_type \notin RegisteredTypes
              THEN [router EXCEPT !.error = "NotImplementedError",
                                  !.n_requests = @ + 1]
              ELSE IF data_type = "events"
              THEN IF router.objects[self].experiment = None
                   THEN [router EXCEPT !.error = "AttributeError",
                                       !.n_requests = @ + 1]
                   ELSE IF TaskEventsOnly(router.objects[self].experiment[1])
                   THEN ConstructReader(self, "task_events")
                   ELSE ConstructReader(self, "all_events")
              ELSE ConstructReader(self, data_type)
    /\ UNCHANGED <<scalp_reader, loader, ctor, dispatch>>
    /\ UNCHANGED yvars

InitRouter ==
    /\ router = [objects |-> <<>>, cache |-> <<>>, n_readers |-> 0,
                 n_requests |-> 0, returned |-> <<>>, error |-> ""]
    /\ ReaderIdle
    /\ TsIdle
    /\ NameIdle
    /\ LoadIdle
    /\ ConcatIdle
    /\ AssemblerIdle
    /\ ScalpIdle
    /\ LoaderIdle
    /\ CtorIdle
    /\ DispatchIdle

NextRouter ==
    \/ NewCMLReader
    \/ GetReader
    \/ RouterLoad

SpecRouter == InitRouter /\ [][NextRouter]_vars

\* ------------------------------------------------- TimeSeries.__init__
\* an array of the given shape, each element naming its position
RECURSIVE ArrayOf(_, _)
ArrayOf(shape, position) ==
    IF shape = <<>> THEN position
    ELSE [i \in 1..Head(shape) |-> ArrayOf(Tail(shape), Append(position, i))]

\* [(-1, -1) for _ in range(data.shape[0])]
DefaultEpochs(n) == [i \in 1..n |-> [start |-> -1, stop |-> Some(-1)]]
\* ["CH{}".format(i) for i in range(data.shape[1])]
DefaultChannelNames == <<"CH0", "CH1", "CH2", "CH3", "CH4", "CH5", "CH6", "CH7">>
DefaultChannels(n) == [i \in 1..n |-> DefaultChannelNames[i]]

\* TimeSeries(data, samplerate, epochs, channels, tstart, attrs) for data of
\* any shape, epochs, channels and attrs being None when not given
TimeSeriesNew(d, shape, samplerate, eps, chans, tstart, attributes) ==
    LET d3     == IF Len(shape) = 2 THEN <<d>> ELSE d
        shape3 == IF Len(shape) = 2 THEN <<1>> \o shape ELSE shape
    IN  IF Len(shape3) # 3 THEN Raise("ValueError")
        ELSE TimeSeriesInit(
                 d3, shape3, samplerate,
                 IF eps # None THEN eps[1] ELSE DefaultEpochs(shape3[1]),
                 IF chans # None THEN chans[1] ELSE DefaultChannels(shape3[2]),
                 tstart,
                 IF attributes # None THEN attributes[1] ELSE NoAttrs)

\* the call of the constructor
Construct ==
    /\ ctor # None
    /\ ctor.pc = "called"
    /\ LET r == TimeSeriesNew(ctor.data, ctor.shape, ctor.samplerate,
                              ctor.epochs, ctor.channels, ctor.tstart,
                              ctor.attrs)
       IN  ctor' = [ctor EXCEPT !.pc = "done", !.error = r.error,
                                !.made = r.value]
    /\ UNCHANGED <<scalp_reader, router, loader, dispatch>>
    /\ UNCHANGED yvars

\* data of one to four dimensions, each of 0..MaxSeries entries
Shapes == UNION {[1..n -> 0..MaxSeries] : n \in 1..4}
EpochArgs == {None} \cup {Some(EpochsFrom(0, k, 1)) : k \in 0..MaxSeries}
ChannelArgs ==
    {None} \cup {Some(SubSeq(<<"a", "b", "c">>, 1, k)) : k \in 0..MaxSeries}

InitConstruct ==
    /\ \E shape \in Shapes, eps \in EpochArgs, chans \in ChannelArgs,
          a \in {None, Some(NoAttrs)} :
          ctor = [data |-> ArrayOf(shape, <<>>), shape |-> shape,
                  samplerate |-> 1000, epochs |-> eps, channels |-> chans,
                  tstart |-> 0, attrs |-> a,
                  pc |-> "called", error |-> "", made |-> None]
    /\ ReaderIdle
    /\ TsIdle
    /\ NameIdle
    /\ LoadIdle
    /\ ConcatIdle
    /\ AssemblerIdle
    /\ ScalpIdle
    /\ RouterIdle
    /\ LoaderIdle
    /\ DispatchIdle

\* a series is constructed directly, or series are concatenated
InitTimeSeries == InitConstruct \/ InitConcat

NextTimeSeries ==
    \/ Construct
    \/ ConcatenateCall

SpecTimeSeries == InitTimeSeries /\ [][NextTimeSeries]_vars

\* ---------------------------------------- reads of epochs without a stop
\* the epoch lists with a stop of None or a stop that is not positive: the
\* whole session, the session from sample 1 on, and (0, -1) and (1, 0)
OpenEpochLists ==
    {<<[start |-> 0, stop |-> None]>>,
     <<[start |-> 1, stop |-> None], [start |-> 0, stop |-> None]>>,
     <<[start |-> 0, stop |-> Some(-1)]>>,
     <<[start |-> 1, stop |-> Some(0)]>>,
     <<[start |-> 0, stop |-> Some(NSamples - 1)], [start |-> 1, stop |-> None]>>}

\* a reader of any non-scalp class constructed without a scheme and with
\* such epochs
OpenReaderInit(k, recordings) ==
    /\ kind = k
    /\ recording \in recordings
    /\ scheme = NoScheme
    /\ epochs \in OpenEpochLists
    /\ unique_contacts = UniqueContacts(scheme)
    /\ rereferencing_possible = TRUE
    /\ pc = "constructed"
    /\ data = <<>>
    /\ contacts = <<>>
    /\ reref = <<>>
    /\ labels = <<>>
    /\ warned = FALSE
    /\ error = ""

InitOpenEpochs ==
    /\ \/ OpenReaderInit("split", SplitRecordings)
       \/ OpenReaderInit("numpy", NumpyRecordings)
       \/ OpenReaderInit("hdf5", MonopolarRecordings({None, Some(1)}, Orients))
    /\ TsIdle
    /\ OthersIdle

NextOpenEpochs ==
    \/ SplitRead
    \/ NumpyRead
    \/ Hdf5Read

SpecOpenEpochs == InitOpenEpochs /\ [][NextOpenEpochs]_vars

\* ------------------- EEGReader.as_timeseries: the reader of one file
\* sources["data_format"] as recorded for a file
DataFormats == {".bdf", ".raw", ".mff", "int16", "float32"}
IsScalp(dtype) == dtype \in {".bdf", ".raw", ".mff"}

\* what the reader is constructed with as epochs: the list of sample-index
\* pairs, the scalp record of onsets with tmin and tmax, or None
EpochsKind(dtype, rs, re, n) ==
    IF ~IsScalp(dtype) THEN "pairs"
    ELSE IF rs = 0 /\ re = -1 /\ n = 1 THEN "none"
    ELSE "record"

\* the epochs are made for the recorded data_format and the reader class is
\* chosen by the name of the file
SelectReader ==
    /\ dispatch # None
    /\ dispatch.pc = "file"
    /\ dispatch' =
          [dispatch EXCEPT
              !.pc = "constructed",
              !.is_scalp = IsScalp(dispatch.dtype),
              !.epochs = EpochsKind(dispatch.dtype, dispatch.rel_start,
                                    dispatch.rel_stop, dispatch.n_events),
              !.reader_class = get_reader_class(dispatch.filename)]
    /\ UNCHANGED <<scalp_reader, router, loader, ctor>>
    /\ UNCHANGED yvars

\* the file names of a batch: a stem and one of the suffixes, or none
FileNames ==
    {<<"e", "e", "g">> \o ending : ending \in {<<>>, H5, BDF, MFF, RAW, NPY}}

InitDispatch ==
    /\ \E name \in FileNames, dtype \in DataFormats, w \in Windows,
          n \in 1..MaxEvents :
          dispatch = [filename |-> name, dtype |-> dtype,
                      rel_start |-> w[1], rel_stop |-> w[2], n_events |-> n,
                      pc |-> "file", is_scalp |-> FALSE, epochs |-> "",
                      reader_class |-> ""]
    /\ ReaderIdle
    /\ TsIdle
    /\ NameIdle
    /\ LoadIdle
    /\ ConcatIdle
    /\ AssemblerIdle
    /\ ScalpIdle
    /\ RouterIdle
    /\ LoaderIdle
    /\ CtorIdle

NextDispatch == SelectReader

SpecDispatch == InitDispatch /\ [][NextDispatch]_vars

\* ------------------------------------- batches with interleaved files
\* recordings of two channels at 1000 Hz, so that their containers concatenate
InterleavedFiles == {SplitFile(<<1, 2>>), NumpyFile, MonopolarFile(Some(1))}

\* a batch of up to MaxBatch events whose files may alternate, read with a
\* window of two samples from each event on
InitInterleaved ==
    /\ disk \in [1..MaxFiles -> InterleavedFiles]
    /\ \E evs \in SeqsUpTo(BatchRows, 1, MaxBatch) :
          asm = [events |-> evs, rel_start |-> 0, rel_stop |-> 2,
                 todo |-> <<>>, reader |-> None, info |-> <<>>,
                 pc |-> "called", error |-> ""]
    /\ series = <<>>
    /\ dim = "events"
    /\ combined = None
    /\ cat_error = ""
    /\ ReaderIdle
    /\ TsIdle
    /\ NameIdle
    /\ LoadIdle
    /\ ScalpIdle
    /\ RouterIdle
    /\ LoaderIdle
    /\ CtorIdle
    /\ DispatchIdle

SpecInterleaved == InitInterleaved /\ [][NextAssemble]_vars

\* ------------------------------------- EEGReader.load on a memoized reader
\* kwargs.get(key, default): an argument left out of the call is None here,
\* one passed with the value v is Some(v)
KwargsGet(argument, default) ==
    IF argument = None THEN default ELSE argument[1]

\* a row of an events table; a relative eegfile names only the basename
EventRow(label, offset, absolute, subj) ==
    [index |-> label, eegoffset |-> offset, subject |-> subj,
     eegfile |-> [absolute |-> absolute, basename |-> "eeg"]]

\* _eegfile_absolute: relative names become absolute ones, in the table given
EegfileAbsolute(table) ==
    [i \in DOMAIN table |-> [table[i] EXCEPT !.eegfile.absolute = TRUE]]

\* BaseEEGReader.__init__: self.clean = False if clean is None else clean
ReaderClean(flag) == IF flag = None THEN FALSE ELSE flag[1]

\* mutant: a scheme left out of the call leaves the scheme of the reader
LoadSchemeKept(self_scheme, kw) == KwargsGet(kw.scheme, self_scheme)

\* self.scheme = kwargs.get("scheme", None)
LoadScheme(self_scheme, kw) == KwargsGet(kw.scheme, None)

\* self.clean = kwargs.get("clean", None)
LoadClean(self_clean, kw) == KwargsGet(kw.clean, None)

\* as_timeseries as far as the readers go: the window is checked, then a
\* reader is constructed and read for each file; when the first file cannot
\* be read the exception ends the loop
AsTimeseriesReaders(self_scheme, self_clean, table, rs, re, unreadable) ==
    IF WindowRejected(rs, re) THEN [error |-> "ValueError", readers |-> <<>>]
    ELSE LET files == Unique(Column(table, "eegfile"))
             made  == [i \in DOMAIN files |->
                          [filename |-> files[i], scheme |-> self_scheme,
                           clean |-> ReaderClean(self_clean)]]
         IN  IF unreadable
             THEN [error |-> "FileNotFoundError", readers |-> <<made[1]>>]
             ELSE [error |-> "", readers |-> made]

\* EEGReader.load(**kw) on the memoized reader self, as_timeseries included.
\* frames are the tables in memory after the call: the caller's table first,
\* then the table of the events kept and its copy; `last` records the call
LoadOnReader(self, kw, unreadable) ==
    LET r       == EEGReaderLoad(kw, self, self.task_events)
        caller  == IF kw.events = None THEN <<>> ELSE <<kw.events[1]>>
        entered == [scheme |-> self.scheme, clean |-> self.clean]
    IN  IF r.error # ""
        THEN [self EXCEPT !.frames = caller,
                          !.last = [kwargs |-> kw, entered |-> entered,
                                    error |-> r.error, readers |-> <<>>]]
        ELSE LET new_clean  == LoadClean(self.clean, kw)
                 new_scheme == LoadScheme(self.scheme, kw)
                 \* events.copy() is the last frame, the one rewritten
                 heap  == caller \o <<r.events, r.events>>
                 after == [heap EXCEPT ![Len(heap)] = EegfileAbsolute(@)]
                 run   == AsTimeseriesReaders(new_scheme, new_clean,
                                              after[Len(after)],
                                              r.rel_start[1], r.rel_stop[1],
                                              unreadable)
             IN  [self EXCEPT !.clean = new_clean, !.scheme = new_scheme,
                              !.frames = after,
                              !.last = [kwargs |-> kw, entered |-> entered,
                                        error |-> run.error,
                                        readers |-> run.readers]]

\* the scheme passed to loads, by name
LoaderSchemes == {"pairs"}

\* the events tables passed to loads
LoaderTables ==
    {<<>>,
     <<EventRow(0, -1, FALSE, "R1")>>,
     <<EventRow(0, 0, FALSE, "R1")>>,
     <<EventRow(0, 0, FALSE, "R1"), EventRow(1, -1, TRUE, "R1")>>,
     <<EventRow(0, 0, FALSE, "R1"), EventRow(1, 0, TRUE, "R1")>>,
     <<EventRow(0, 0, FALSE, "R1"), EventRow(1, 0, FALSE, "R2")>>}

\* the events of the reader's session that name an eegfile
LoaderTaskEvents == {<<>>, <<EventRow(1, 0, FALSE, "R1")>>}

\* rel_start and rel_stop as passed: left out, a window, a rejected window
LoaderWindows == {<<None, None>>, <<Some(0), Some(1)>>, <<Some(2), Some(1)>>}

\* the keyword arguments of a load: those of CMLReader.load_eeg always hold
\* scheme and clean, those of a direct call may leave anything out
LoaderKwargs ==
    {[events |-> e, rel_start |-> w[1], rel_stop |-> w[2], scheme |-> s,
      clean |-> c] :
        e \in {None} \cup {Some(t) : t \in LoaderTables},
        w \in LoaderWindows,
        s \in {None, Some(None)} \cup {Some(Some(x)) : x \in LoaderSchemes},
        c \in {None, Some(None), Some(Some(TRUE)), Some(Some(FALSE))}}

\* a load on the memoized reader
MemoizedLoad ==
    /\ loader # None
    /\ \E kw \in LoaderKwargs, unreadable \in BOOLEAN :
          loader' = Some(LoadOnReader(loader[1], kw, unreadable))
    /\ UNCHANGED <<scalp_reader, router, ctor, dispatch>>
    /\ UNCHANGED yvars

\* the reader as _construct_reader returns it: the class attributes scheme
\* and clean are None and nothing was loaded
InitMemoized ==
    /\ \E s \in {None, Some(0)}, t \in LoaderTaskEvents :
          loader = Some([session |-> s, task_events |-> t,
                         scheme |-> None, clean |-> None, frames |-> <<>>,
                         last |-> [kwargs |-> [events |-> None,
                                               rel_start |-> None,
                                               rel_stop |-> None,
                                               scheme |-> None,
                                               clean |-> None],
                                   entered |-> [scheme |-> None, clean |-> None],
                                   error |-> "", readers |-> <<>>]])
    /\ ReaderIdle
    /\ TsIdle
    /\ NameIdle
    /\ LoadIdle
    /\ ConcatIdle
    /\ AssemblerIdle
    /\ ScalpIdle
    /\ RouterIdle
    /\ CtorIdle
    /\ DispatchIdle

NextMemoized == MemoizedLoad

SpecMemoized == InitMemoized /\ [][NextMemoized]_vars

\* ============================================================== properties
\* rereference() was called and returned or raised
Rereferenced == pc \in {"rereferenced", "reref_failed"}

\* the contacts a scheme names
SchemeContacts(sch) ==
    Range(sch.contact) \cup Range(sch.contact_1) \cup Range(sch.contact_2)

\* the samples of epoch ep that the recording holds for contact c
RawChannel(c, ep) ==
    IF kind = "hdf5"
    THEN PySlice(Signal(CHOOSE p \in DOMAIN recording.ports :
                            recording.ports[p] = c), ep.start, ep.stop)
    ELSE PySlice(Signal(c), ep.start, ep.stop)

\* the rows of a pair scheme, from row k on, whose two contacts are both in
\* the contact list cts
RECURSIVE ResolvedRows(_, _, _)
ResolvedRows(sch, cts, k) ==
    IF k > Len(sch.contact_1) THEN <<>>
    ELSE (IF InMap(cts, sch.contact_1[k]) /\ InMap(cts, sch.contact_2[k])
          THEN <<k>> ELSE <<>>) \o ResolvedRows(sch, cts, k + 1)

\* contact_1 - contact_2 of the scheme rows `rows`, for epoch e
Derivations(rows, e) ==
    [j \in DOMAIN rows |->
        RowMinus(RawChannel(scheme.contact_1[rows[j]], epochs[e]),
                 RawChannel(scheme.contact_2[rows[j]], epochs[e]))]

\* C1: default rereference with a pair scheme never fails and returns, in
\* scheme order, contact_1 - contact_2 of exactly the rows whose two contacts
\* are both in the recording's contact list; rows with an absent contact are
\* skipped.
C1_PairRowsWithAbsentContactSkipped ==
    (Rereferenced /\ scheme.form = "pairs") =>
        /\ pc = "rereferenced"
        /\ \A e \in DOMAIN epochs :
              reref[e] = Derivations(ResolvedRows(scheme, contacts, 1), e)

\* C2: when every contact of a pair scheme is in the recording, rereference
\* returns one channel per scheme row, channel k being channel[contact_1 of
\* row k] - channel[contact_2 of row k], sample for sample, in every epoch.
C2_AllPresentPairsSubtracted ==
    (Rereferenced /\ scheme.form = "pairs"
        /\ SchemeContacts(scheme) \subseteq Range(contacts)) =>
        /\ pc = "rereferenced"
        /\ \A e \in DOMAIN epochs :
              /\ Len(reref[e]) = Len(scheme.label)
              /\ \A k \in DOMAIN scheme.label :
                    reref[e][k] =
                        RowMinus(RawChannel(scheme.contact_1[k], epochs[e]),
                                 RawChannel(scheme.contact_2[k], epochs[e]))

\* C2 witness: a two-row scheme rereferenced over a container whose ports are
\* not in ascending order
C2_Witness ==
    /\ pc = "rereferenced"
    /\ kind = "hdf5"
    /\ scheme.form = "pairs"
    /\ Len(scheme.label) = 2
    /\ scheme.contact_1[1] # scheme.contact_1[2]
    /\ SchemeContacts(scheme) \subseteq Range(contacts)
    /\ ~IsSorted(contacts)
    /\ Len(reref[1]) = 2

\* C3: the labels default rereference returns with a pair scheme are the
\* labels of the rows whose two contacts resolved, in scheme order, so there
\* are as many labels as output channels.
C3_LabelsOfResolvedRows ==
    (pc = "rereferenced" /\ scheme.form = "pairs") =>
        /\ labels = [j \in DOMAIN ResolvedRows(scheme, contacts, 1) |->
                        scheme.label[ResolvedRows(scheme, contacts, 1)[j]]]
        /\ \A e \in DOMAIN epochs : Len(labels) = Len(reref[e])

\* C4: default rereference with a contact scheme returns, when it returns,
\* the raw row of the contact of scheme row k as channel k, without
\* subtraction and in scheme order whatever the order of the contacts in the
\* recording, and the scheme's labels.
C4_ContactFormSelectsRows ==
    (pc = "rereferenced" /\ scheme.form = "contacts") =>
        /\ labels = scheme.label
        /\ \A e \in DOMAIN epochs :
              /\ Len(reref[e]) = Len(scheme.contact)
              /\ \A k \in DOMAIN scheme.contact :
                    reref[e][k] = RawChannel(scheme.contact[k], epochs[e])

\* C4 witness: a scheme naming two contacts in the order opposite to the
\* order of the recording's ports
C4_Witness ==
    /\ pc = "rereferenced"
    /\ kind = "hdf5"
    /\ scheme.form = "contacts"
    /\ Len(scheme.contact) = 2
    /\ contacts = <<scheme.contact[2], scheme.contact[1]>>
    /\ scheme.contact[1] # scheme.contact[2]
    /\ reref[1] = <<data[1][2], data[1][1]>>

\* some, but not all, of the channels the scheme requests are absent from
\* the recording
PartlyAbsent ==
    IF scheme.form = "contacts"
    THEN /\ \E k \in DOMAIN scheme.contact : InMap(contacts, scheme.contact[k])
         /\ \E k \in DOMAIN scheme.contact : ~InMap(contacts, scheme.contact[k])
    ELSE /\ ResolvedRows(scheme, contacts, 1) # <<>>
         /\ Len(ResolvedRows(scheme, contacts, 1)) < Len(scheme.label)

\* C5: when some, but not all, of the requested channels are absent from the
\* recording, rereference does not fail.
C5_PartialDataNeverFails ==
    (Rereferenced /\ PartlyAbsent) => pc = "rereferenced"

\* the recorded pair of channel i is requested by row k, in either order
Names(k, i) ==
    \/ /\ scheme.contact_1[k] = recording.ch0_label[i]
       /\ scheme.contact_2[k] = recording.ch1_label[i]
    \/ /\ scheme.contact_1[k] = recording.ch1_label[i]
       /\ scheme.contact_2[k] = recording.ch0_label[i]

\* rereference() of a container that cannot be rereferenced, with a pair
\* scheme
BipolarCase ==
    /\ Rereferenced
    /\ kind = "hdf5"
    /\ ~rereferencing_possible
    /\ scheme.form = "pairs"

\* C6: with the monopolar-possible flag false and no requested pair among the
\* recorded pairs, rereference fails with RereferencingNotPossibleError.
C6_NoCommonPairIsAnError ==
    (BipolarCase
        /\ ~\E k \in DOMAIN scheme.label, i \in DOMAIN recording.ch0_label :
               Names(k, i)) =>
        error = "RereferencingNotPossibleError"

\* the channels read() kept whose recorded pair the scheme requests
RequestedChannels ==
    Select([i \in DOMAIN recording.ch0_label |-> i],
           [i \in DOMAIN recording.ch0_label |->
               /\ Hdf5Idxs(recording)[i]
               /\ \E k \in DOMAIN scheme.label : Names(k, i)])

\* C7: on a container that cannot be rereferenced, a pair scheme that
\* requests at least one recorded pair gets back exactly the raw channels
\* whose recorded pair it requests (in either contact order), unmodified, and
\* one label per channel, the i-th being the label of a scheme row naming the
\* pair of the i-th returned channel.
C7_BipolarSubsetWithLabels ==
    (BipolarCase /\ RequestedChannels # <<>>) =>
        /\ pc = "rereferenced"
        /\ \A e \in DOMAIN epochs :
              reref[e] = [j \in DOMAIN RequestedChannels |->
                             PySlice(Signal(RequestedChannels[j]),
                                     epochs[e].start, epochs[e].stop)]
        /\ Len(labels) = Len(RequestedChannels)
        /\ \A j \in DOMAIN RequestedChannels :
              \E k \in DOMAIN scheme.label :
                  /\ Names(k, RequestedChannels[j])
                  /\ labels[j] = scheme.label[k]

\* the contacts of recorded channel i, in no order
RecordedPair(i) == {recording.ch0_label[i], recording.ch1_label[i]}
FirstOccurrence(i) == \A j \in 1..(i - 1) : RecordedPair(j) # RecordedPair(i)

\* C8: read() of a container keeps recorded pair i iff no earlier entry holds
\* the same two contacts in either order, so every recorded pair is retained
\* exactly once, at its first occurrence in file order.
C8_DuplicatePairsKeptOnce ==
    (pc = "read" /\ kind = "hdf5" /\ recording.has_bipolar_info) =>
        LET kept == Select([i \in DOMAIN recording.ports |-> i],
                           [i \in DOMAIN recording.ports |-> FirstOccurrence(i)])
        IN  /\ contacts = [j \in DOMAIN kept |-> recording.ports[kept[j]]]
            /\ \A e \in DOMAIN epochs :
                  data[e] = [j \in DOMAIN kept |->
                                PySlice(Signal(kept[j]), epochs[e].start,
                                        epochs[e].stop)]
            /\ \A i \in DOMAIN recording.ports :
                  Cardinality({j \in DOMAIN kept :
                                  RecordedPair(kept[j]) = RecordedPair(i)}) = 1

\* C8 witness: a pair recorded twice, the second time with its contacts
\* swapped, of which read() kept one channel
C8_Witness ==
    /\ pc = "read"
    /\ Len(recording.ch0_label) = 2
    /\ recording.ch0_label[2] = recording.ch1_label[1]
    /\ recording.ch1_label[2] = recording.ch0_label[1]
    /\ recording.orient = "row"
    /\ contacts = <<1>>
    /\ Len(data[1]) = 1

\* C9: the one-file-per-channel read returns exactly the channel files whose
\* numeric suffix is a contact of the scheme (every file without a scheme),
\* in file order, with the suffixes as identities; include_contact(n) is true
\* iff there is no scheme or n is a contact of the scheme.
C9_SplitReadFiltersByScheme ==
    /\ \A n \in 1..(MaxContact + 1) :
          include_contact(unique_contacts, n) <=>
              (scheme.form = "none" \/ n \in SchemeContacts(scheme))
    /\ (pc = "read" /\ kind = "split") =>
          LET files == SplitFiles(recording)
              wanted == [i \in DOMAIN files |->
                            scheme.form = "none"
                            \/ files[i] \in SchemeContacts(scheme)]
          IN  /\ contacts = Select(files, wanted)
              /\ \A e \in DOMAIN epochs :
                    data[e] = [m \in DOMAIN contacts |->
                                  PySlice(Signal(contacts[m]), epochs[e].start,
                                          epochs[e].stop)]

\* C9 witness: files 1..10 read with a pair scheme over the contacts 1, 2, 3
C9_Witness ==
    /\ pc = "read"
    /\ kind = "split"
    /\ recording.files = ExampleFiles
    /\ scheme.form = "pairs"
    /\ SchemeContacts(scheme) = {1, 2, 3}
    /\ contacts = <<1, 2, 3>>
    /\ Len(data[1]) = 3

\* the epochs were computed for a window with rel_start <= rel_stop
Converted == ts_pc = "epochs" /\ rel_start <= rel_stop
Span(ep) == ep.stop[1] - ep.start
Whole(ms) == (ms * sample_rate) % 1000 = 0

\* C10 as stated: for rel_start <= rel_stop every epoch spans exactly
\* round((rel_stop - rel_start) * rate / 1000) samples.
C10_SpanIsRoundedWindow ==
    Converted =>
        \A i \in DOMAIN ts_epochs :
            /\ ts_epochs[i].stop # None
            /\ Span(ts_epochs[i]) =
                   Round((rel_stop - rel_start) * sample_rate, 1000)

\* C10 amended: for rel_start <= rel_stop every epoch spans
\* round(rel_stop * rate / 1000) - round(rel_start * rate / 1000) samples,
\* which is within one sample of round((rel_stop - rel_start) * rate / 1000)
\* and equal to it when both ends of the window are whole numbers of samples.
C10_SpanWithinOneOfRoundedWindow ==
    Converted =>
        \A i \in DOMAIN ts_epochs :
            LET window == Round((rel_stop - rel_start) * sample_rate, 1000)
            IN  /\ ts_epochs[i].stop # None
                /\ ts_epochs[i].start =
                       events[i] + Round(rel_start * sample_rate, 1000)
                /\ Span(ts_epochs[i]) =
                       Round(rel_stop * sample_rate, 1000)
                       - Round(rel_start * sample_rate, 1000)
                /\ Span(ts_epochs[i]) - window \in {-1, 0, 1}
                /\ (Whole(rel_start) /\ Whole(rel_stop)) =>
                       Span(ts_epochs[i]) = window

\* C10 witness: a window whose ends fall half a sample off, and whose epochs
\* are one sample shorter than the rounded window
C10_Witness ==
    /\ Converted
    /\ Len(ts_epochs) = 2
    /\ ~Whole(rel_start)
    /\ ~Whole(rel_stop)
    /\ Span(ts_epochs[2]) + 1 = Round((rel_stop - rel_start) * sample_rate, 1000)

\* the whole-session sentinel window
Sentinel == rel_start = 0 /\ rel_stop = -1
WholeSession == <<[start |-> 0, stop |-> None]>>

\* C11: as_timeseries fails with the invalid-window error for every window
\* with rel_start > rel_stop other than the sentinel (0, -1), before any
\* epoch is computed or file read.
C11_InvertedWindowRejected ==
    (ts_pc # "start" /\ rel_start > rel_stop /\ ~Sentinel) =>
        ts_pc = "ValueError"

C13_EpochsWellFormed ==
    ts_pc = "epochs" =>
        \A i \in DOMAIN ts_epochs :
            /\ ts_epochs[i].start >= 0
            /\ ts_epochs[i].stop # None =>
                  ts_epochs[i].start <= ts_epochs[i].stop[1]

\* C14: the reader class is a total function of the suffix of the name:
\* '.h5' gives RamulatorHDF5Reader; '.bdf', '.mff' or '.raw' gives
\* ScalpEEGReader; '.npy' gives NumpyEEGReader; every other name gives
\* SplitEEGReader.
C14_ReaderClassBySuffix ==
    reader_class # "" =>
        LET h5    == EndsWith(basename, H5)
            scalp == \E suffix \in {BDF, MFF, RAW} : EndsWith(basename, suffix)
            npy   == EndsWith(basename, NPY)
        IN  /\ reader_class \in {"RamulatorHDF5Reader", "ScalpEEGReader",
                                 "NumpyEEGReader", "SplitEEGReader"}
            /\ (reader_class = "RamulatorHDF5Reader") <=> h5
            /\ (reader_class = "ScalpEEGReader") <=> scalp
            /\ (reader_class = "NumpyEEGReader") <=> npy
            /\ (reader_class = "SplitEEGReader") <=> ~(h5 \/ scalp \/ npy)

\* C14 witness: a name ending in '.raw' that has '.npy' earlier gets the
\* scalp reader
C14_Witness ==
    /\ reader_class = "ScalpEEGReader"
    /\ basename = <<".", "n", "p", "y", "_">> \o RAW

\* a load was called and has raised or has called as_timeseries
LoadReturned == load_pc \in {"load_eeg_failed", "load_failed", "as_timeseries"}
\* EEGReader.load ran to its end or to an exception
LoadRan == load_pc \in {"load_failed", "as_timeseries"}
\* as_timeseries, which resolves and reads the recordings, was not entered
NothingRead == ts_pc = "idle"

\* events that pass every other validation of a load: all of the reader's
\* subject and session, one of them at least with eegoffset >= 0
ValidBatch(table, reader) ==
    /\ Range(Column(table, "subject")) = {reader.subject}
    /\ {Some(s) : s \in Range(Column(table, "session"))} = {reader.session}
    /\ \E i \in DOMAIN table : NonNegativeOffset(table[i])

\* C15: a load with events (here events that are valid in every other
\* respect) and without rel_start, without rel_stop or without both raises
\* IncompatibleParametersError, through CMLReader.load_eeg and through
\* EEGReader.load, and reads no recording.
C15_EventsNeedWindow ==
    (LoadReturned /\ args.events # None
        /\ ValidBatch(args.events[1], cml)
        /\ (args.rel_start = None \/ args.rel_stop = None)) =>
        /\ load_error = "IncompatibleParametersError"
        /\ NothingRead

Concatenated == combined # None \/ cat_error # ""
SeriesAttrs == [i \in DOMAIN series |-> series[i].attrs]
\* the series that have the attribute k
Having(k) == {i \in DOMAIN series : k \in DOMAIN series[i].attrs}
\* the series all have the sample rate, the channels and the sample count of
\* the first
Alike ==
    \A i \in DOMAIN series :
        /\ series[i].samplerate = series[1].samplerate
        /\ series[i].channels = series[1].channels
        /\ series[i].shape[3] = series[1].shape[3]

\* C17: concatenating series of identical channels, sample rate and sample
\* count (here of at least one sample) along the epoch axis returns a series
\* with as many epochs as the inputs have together, whose data and epochs
\* are those of the inputs in input order, with the channels and the sample
\* rate of the inputs.
C17_EpochsJoinedInOrder ==
    (Concatenated /\ dim = "events" /\ series # <<>> /\ Alike
        /\ series[1].shape[3] > 0) =>
        /\ cat_error = ""
        /\ combined # None
        /\ LET joined == combined[1]
           IN  /\ joined.shape[1] = Len(Flatten([i \in DOMAIN series |-> series[i].epochs]))
               /\ joined.data = Flatten([i \in DOMAIN series |-> series[i].data])
               /\ joined.epochs = Flatten([i \in DOMAIN series |-> series[i].epochs])
               /\ joined.channels = series[1].channels
               /\ joined.samplerate = series[1].samplerate

\* C18: concatenate raises, and returns nothing, whenever the series differ
\* in sample rate or in channels or, along the epoch axis, in sample count;
\* a dimension other than "events" and "time" raises ValueError whatever the
\* series are.
C18_MismatchRaises ==
    Concatenated =>
        /\ dim \notin {"events", "time"} =>
              (cat_error = "ValueError" /\ combined = None)
        /\ (\E i, j \in DOMAIN series :
                \/ series[i].samplerate # series[j].samplerate
                \/ series[i].channels # series[j].channels
                \/ dim = "events" /\ series[i].shape[3] # series[j].shape[3]) =>
              (cat_error # "" /\ combined = None)

\* C18 witness: two series whose channels differ only in their order are
\* refused along the epoch axis
C18_Witness ==
    /\ Concatenated
    /\ dim = "events"
    /\ Len(series) = 2
    /\ series[1].channels = <<"CH1", "CH2">>
    /\ series[2].channels = <<"CH2", "CH1">>
    /\ series[1].samplerate = series[2].samplerate
    /\ series[1].shape = series[2].shape
    /\ cat_error = "ValueError"
    /\ combined = None

\* C19 as stated: the merged attrs hold, for every key, the value of the
\* last series that has the key.
C19_AttrsLastWins ==
    combined # None =>
        /\ DOMAIN combined[1].attrs = UNION {DOMAIN a : a \in Range(SeriesAttrs)}
        /\ \A k \in DOMAIN combined[1].attrs :
              \E i \in Having(k) :
                  /\ \A j \in Having(k) : j <= i
                  /\ combined[1].attrs[k] = series[i].attrs[k]

\* C19 amended: the merged attrs hold every key of every series, with the
\* value of the first series (in concatenation order) that has the key; a
\* key of one series only keeps its value.
C19_AttrsFirstWins ==
    combined # None =>
        /\ DOMAIN combined[1].attrs = UNION {DOMAIN a : a \in Range(SeriesAttrs)}
        /\ \A k \in DOMAIN combined[1].attrs :
              \E i \in Having(k) :
                  /\ \A j \in Having(k) : i <= j
                  /\ combined[1].attrs[k] = series[i].attrs[k]

\* C19 witness: two series that both have both keys, with different values
\* for one of them; the value of the first series is kept
C19_Witness ==
    /\ combined # None
    /\ Len(series) = 2
    /\ DOMAIN series[1].attrs = AttrKeys
    /\ DOMAIN series[2].attrs = AttrKeys
    /\ series[1].attrs["mne_info"] # series[2].attrs["mne_info"]
    /\ combined[1].attrs["mne_info"] = series[1].attrs["mne_info"]

\* the position at which a file first appears in the events of the batch
FirstAppearance(f) ==
    CHOOSE i \in DOMAIN asm.events :
        /\ asm.events[i].eegfile = f
        /\ \A j \in DOMAIN asm.events : asm.events[j].eegfile = f => i <= j
\* the file processed last: the one whose first appearance is the latest
LastProcessed ==
    CHOOSE f \in Range(Column(asm.events, "eegfile")) :
        \A g \in Range(Column(asm.events, "eegfile")) :
            FirstAppearance(g) <= FirstAppearance(f)
\* a structured container whose monopolar_possible flag is present and false
FlaggedImpossible(file) ==
    /\ file.class = "RamulatorHDF5Reader"
    /\ file.recording.monopolar_possible # None
    /\ file.recording.monopolar_possible[1] = 0

\* C20: the result's attrs["rereferencing_possible"] is the flag of the
\* reader of the file processed last, the files being processed in order of
\* first appearance in the events, whatever the earlier files are; a
\* reader's flag is false exactly for a structured container whose
\* monopolar_possible flag is present and false.
C20_FlagOfLastFile ==
    /\ asm.reader # None =>
          asm.reader[1].rereferencing_possible =
              ~FlaggedImpossible(disk[asm.reader[1].filename])
    /\ asm.pc = "done" =>
          /\ combined # None
          /\ asm.reader[1].filename = LastProcessed
          /\ combined[1].attrs["rereferencing_possible"] =
                 ~FlaggedImpossible(disk[LastProcessed])

\* C20 witness: the events name file 2 first, a container that cannot be
\* rereferenced, and then file 1, which can; the result's flag is true
C20_Witness ==
    /\ asm.pc = "done"
    /\ Column(asm.events, "eegfile") = <<2, 1>>
    /\ FlaggedImpossible(disk[2])
    /\ ~FlaggedImpossible(disk[1])
    /\ combined[1].shape[1] = 2
    /\ combined[1].attrs["rereferencing_possible"] = TRUE

\* the window of the epoch at onset lies inside the recording
InsideRecording(onset) ==
    /\ ~BeforeRecording(onset, scalp_reader.sfreq, scalp_reader.rel_start)
    /\ ~PastRecording(onset, scalp_reader.sfreq, scalp_reader.rel_stop,
                      scalp_reader.n_times)

\* C21: after a scalp read with events, the onsets in any order, every
\* retained epoch lies inside the recording, and after the crop of the
\* assembler the events and the onset and offset epochs are as many as the
\* retained epochs, the i-th event being the event of the i-th epoch.
C21_ScalpTruncationAligned ==
    /\ (scalp_reader # None /\ scalp_reader.pc \in {"read", "cropped"}) =>
          \A i \in DOMAIN scalp_reader.epochs :
              InsideRecording(scalp_reader.epochs[i])
    /\ (scalp_reader # None /\ scalp_reader.pc = "cropped") =>
          /\ Len(scalp_reader.ev) = Len(scalp_reader.epochs)
          /\ Len(scalp_reader.on_off_epochs) = Len(scalp_reader.epochs)
          /\ \A i \in DOMAIN scalp_reader.ev :
                scalp_reader.ev[i].eegoffset = scalp_reader.epochs[i]

\* C22: after any sequence of get_reader and load calls, all the requests
\* of one tuple (data type, subject, experiment, session, ...) got the same
\* reader instance, from whichever CMLReader objects they came.
C22_OneReaderPerTuple ==
    router # None =>
        \A t \in DOMAIN router.returned : Cardinality(router.returned[t]) = 1

\* load_eeg(events, rel_start, rel_stop) on a CMLReader built with a subject
\* only, the events being of that subject, of several sessions and all with
\* eegoffset >= 0, numbered from 0
SeveralSessions ==
    /\ entry = "load_eeg"
    /\ cml.session = None
    /\ args.events # None
    /\ args.rel_start # None
    /\ args.rel_stop # None
    /\ Range(Column(args.events[1], "subject")) = {cml.subject}
    /\ Cardinality(Range(Column(args.events[1], "session"))) > 1
    /\ Column(args.events[1], "index") = [i \in DOMAIN args.events[1] |-> i - 1]
    /\ \A i \in DOMAIN args.events[1] : NonNegativeOffset(args.events[1][i])

\* C23: a CMLReader built with only a subject loads EEG for events of
\* several sessions of that subject: load_eeg does not fail and calls
\* as_timeseries with all the events.
C23_SeveralSessionsLoad ==
    (LoadReturned /\ SeveralSessions) =>
        /\ load_error = ""
        /\ load_pc = "as_timeseries" => n_events = Len(args.events[1])

\* the reader of file f reports real channel identities: the numeric
\* suffixes of the channel files or the ports of a container
RealIdentities(f) ==
    disk[f].class \in {"SplitEEGReader", "RamulatorHDF5Reader"}
\* the files processed so far, in order
Processed == SubSeq(Unique(Column(asm.events, "eegfile")), 1, Len(series))

\* C24 as stated: without a scheme, the labels of a recording whose reader
\* reports real identities are derived from the identities, so two
\* recordings with different identities do not get the same labels.
C24_LabelsFromIdentities ==
    asm.pc \in {"loop", "done"} =>
        \A i, j \in DOMAIN series :
            (RealIdentities(Processed[i]) /\ RealIdentities(Processed[j])
                /\ asm.info[i] # asm.info[j]) =>
                series[i].channels # series[j].channels

\* C24 amended: without a scheme the labels of a non-scalp recording are
\* always the synthetic ones, whatever identities the reader reports: one
\* label per channel read, position k (counted from 1) having the label
\* 'CH' followed by k.
C24_AlwaysSyntheticLabels ==
    asm.pc \in {"loop", "done"} =>
        \A i \in DOMAIN series :
            /\ Len(series[i].channels) = Len(asm.info[i])
            /\ series[i].channels =
                  [k \in DOMAIN asm.info[i] |-> ChannelNames[k]]

\* C24 witness: the channel files 2 and 3 of a one-file-per-channel
\* recording are labelled CH1 and CH2
C24_Witness ==
    /\ asm.pc = "done"
    /\ Len(series) = 1
    /\ disk[Processed[1]].class = "SplitEEGReader"
    /\ asm.info[1] = <<2, 3>>
    /\ series[1].channels = <<"CH1", "CH2">>
    /\ combined[1].channels = <<"CH1", "CH2">>

\* the data of ts are 3-D and of the shape ts records, with one epoch entry
\* per epoch of the data and one label per channel
WellShaped(ts) ==
    /\ Len(ts.shape) = 3
    /\ Len(ts.data) = ts.shape[1]
    /\ \A e \in DOMAIN ts.data :
          /\ Len(ts.data[e]) = ts.shape[2]
          /\ \A c \in DOMAIN ts.data[e] : Len(ts.data[e][c]) = ts.shape[3]
    /\ Len(ts.epochs) = ts.shape[1]
    /\ Len(ts.channels) = ts.shape[2]

\* the arguments the constructor refuses: data that are not 2- or 3-D,
\* epochs or channels given with the wrong length
BadArguments ==
    LET ndim == Len(ctor.shape)
        n_epochs == IF ndim = 2 THEN 1 ELSE ctor.shape[1]
        n_channels == IF ndim = 2 THEN ctor.shape[1] ELSE ctor.shape[2]
    IN  \/ ndim \notin {2, 3}
        \/ ctor.epochs # None /\ Len(ctor.epochs[1]) # n_epochs
        \/ ctor.channels # None /\ Len(ctor.channels[1]) # n_channels

\* C25: every series that exists, constructed directly or returned by
\* concatenate, has 3-D data, as many channels as data.shape[1] and as many
\* epochs as data.shape[0]; the constructor raises ValueError for data that
\* are not 2- or 3-D and for epochs or channels of the wrong length, and
\* makes 2-D data a single epoch.
C25_SeriesWellShaped ==
    /\ combined # None => WellShaped(combined[1])
    /\ (ctor # None /\ ctor.pc = "done") =>
          IF BadArguments
          THEN ctor.error = "ValueError" /\ ctor.made = None
          ELSE /\ ctor.error = ""
               /\ ctor.made # None
               /\ WellShaped(ctor.made[1])
               /\ Len(ctor.shape) = 2 =>
                     /\ ctor.made[1].shape = <<1>> \o ctor.shape
                     /\ ctor.made[1].data = <<ctor.data>>

\* C25 witness: 2-D data of two channels and two samples, constructed with
\* one epoch and without channels, became one epoch of two channels
C25_Witness ==
    /\ ctor # None
    /\ ctor.pc = "done"
    /\ ctor.shape = <<2, 2>>
    /\ ctor.epochs # None
    /\ ctor.channels = None
    /\ ctor.made # None
    /\ ctor.made[1].shape = <<1, 2, 2>>
    /\ ctor.made[1].channels = <<"CH0", "CH1">>

\* the samples of data channel m from sample `start` to the end of the
\* recording
ToTheEnd(m, start) ==
    LET whole == IF kind = "split" THEN Signal(contacts[m]) ELSE Signal(m)
    IN  SubSeq(whole, start + 1, NSamples)

\* C26: read() of a non-scalp reader does not fail on an epoch whose stop is
\* None and returns for it, for every channel, the samples from start to
\* the end of the recording; the dense-matrix reader does the same for a
\* stop that is not positive.
C26_NullStopReadsToEnd ==
    (pc \in {"read", "read_failed"}
        /\ ~(kind = "split" /\ Len(SplitFiles(recording)) = 0)) =>
        /\ pc = "read"
        /\ \A e \in DOMAIN epochs :
              (\/ epochs[e].stop = None
               \/ kind = "numpy" /\ epochs[e].stop[1] <= 0) =>
                  /\ Len(data[e]) = Len(contacts)
                  /\ \A m \in DOMAIN data[e] :
                        data[e][m] = ToTheEnd(m, epochs[e].start)

\* C27: for every file name and recorded data_format, the scalp reader is
\* constructed with the scalp epoch record or with None, never with
\* sample-index pairs, and every other reader with sample-index pairs.
C27_ScalpBranchIffScalpReader ==
    (dispatch # None /\ dispatch.pc = "constructed") =>
        /\ dispatch.is_scalp <=> dispatch.reader_class = "ScalpEEGReader"
        /\ dispatch.reader_class = "ScalpEEGReader" =>
              dispatch.epochs \in {"record", "none"}
        /\ dispatch.reader_class # "ScalpEEGReader" =>
              dispatch.epochs = "pairs"

\* channel_inds of RamulatorHDF5Reader.rereference: one entry per recorded
\* pair of bipolar_info
RereferenceMask ==
    ChannelInds(Select([k \in DOMAIN scheme.contact_1 |->
                           <<scheme.contact_1[k], scheme.contact_2[k]>>],
                       ValidMask(scheme, AllNums(recording))),
                AllNums(recording))

\* C28: when rereference() of a container that cannot be rereferenced gets
\* as far as its channel mask, the mask has one entry per channel of the
\* data read() returned, entry i being that of the pair recorded in data
\* channel i, also when read() dropped duplicated pairs; so the mask can be
\* applied to the data.
C28_MaskMatchesDeduplicatedData ==
    (BipolarCase /\ error # "RereferencingNotPossibleError") =>
        /\ \A e \in DOMAIN data : Len(RereferenceMask) = Len(data[e])
        /\ \A i \in DOMAIN contacts : contacts[i] = recording.ports[i]
        /\ error # "IndexError"

\* the epochs of the events of a batch, taken in the order of the batch
EpochsInInputOrder ==
    AsTimeseriesEpochs(Column(asm.events, "eegoffset"), Len(asm.events),
                       asm.rel_start, asm.rel_stop, 1000)

\* C29: the i-th epoch of a loaded result is the epoch of the i-th input
\* event, also when events of different source files alternate in the input
C29_EpochsInInputOrder ==
    (asm.pc = "done") => combined[1].epochs = EpochsInInputOrder

\* the last load on the memoized reader
LastLoad == loader[1].last

\* C30: each load on a memoized EEG reader constructs its format readers with
\* the scheme and the clean flag passed to that load, none and false when
\* left out, whatever earlier loads were given, and leaves the caller's events
\* table as it was
C30_LoadUsesItsOwnArguments ==
    (loader # None) =>
        /\ \A i \in DOMAIN LastLoad.readers :
              /\ LastLoad.readers[i].scheme = KwargsGet(LastLoad.kwargs.scheme, None)
              /\ LastLoad.readers[i].clean =
                    (KwargsGet(LastLoad.kwargs.clean, None) = Some(TRUE))
        /\ LastLoad.kwargs.events # None =>
              loader[1].frames[1] = LastLoad.kwargs.events[1]

\* a load without scheme and clean after a load with a scheme and clean set,
\* on events with a relative file name and an invalid offset
C30_Witness ==
    /\ loader # None
    /\ LastLoad.entered.scheme # None
    /\ LastLoad.entered.clean = Some(TRUE)
    /\ LastLoad.kwargs.scheme = None
    /\ LastLoad.kwargs.clean = None
    /\ LastLoad.error = ""
    /\ LastLoad.readers # <<>>
    /\ LastLoad.kwargs.events # None
    /\ Len(LastLoad.kwargs.events[1]) = 2
    /\ Len(loader[1].frames[2]) = 1
    /\ loader[1].frames[3] # loader[1].frames[2]

====
